---- MODULE Spec2Model ----
(***************************************************************************)
(* PowerplAI: the ingestion orchestrator (the job-in-progress latch of the  *)
(* API, the progress ledger file, the startup / daily / bulk-season jobs,  *)
(* the schedule upsert, the injury ingestion passes), the prediction       *)
(* engine, the query router and the stand-alone calls of the API.          *)
(*                                                                         *)
(* Each subsystem has its own specification over the shared variables:     *)
(*   SpecLatch    api/main.py latch and trigger endpoints                  *)
(*   SpecCatchup  ingestion/startup_updates.py catchup_game_logs           *)
(*   SpecJobs     run_startup_updates / run_daily_updates                  *)
(*   SpecBulk     scripts/ingest_all_seasons.py                            *)
(*   SpecLedger   ingestion/scheduler.py load_progress / save_progress     *)
(*   SpecGames    ingestion/games.py schedule upsert                       *)
(*   SpecInjuries ingestion/espn_injuries.py, ingestion/injuries.py        *)
(*   SpecPredict  agents/predictions.py _calculate_player_prediction       *)
(*   SpecSamples  the same, while the tables grow between predictions      *)
(*   SpecMatchup  agents/predictions.py get_matchup_prediction             *)
(*   SpecRouter   agents/copilot.py PowerplAICopilot.query                 *)
(*   SpecTarget   agents/copilot.py the target date of _fetch_predictions  *)
(*   SpecLeaders  api/main.py get_stat_leaders                             *)
(*   SpecStatus   the injury status normalisation of both sources          *)
(*   SpecChunk    agents/rag.py chunk_text                                 *)
(***************************************************************************)
EXTENDS Integers, Sequences, FiniteSets, TLC

\* ------------------------------------------------------------------ bounds
\* Task slots (startup launch plus trigger requests) in the latch model.
MaxTasks == 3

\* Completed marker writes allowed in one behaviour of the ledger model.
MaxWrites == 2
\* Clock ticks allowed in one behaviour.
MaxTicks == 2
\* Seasons configured for the bulk job (external codes 1..NumSeasons).
NumSeasons == 2
\* Jobs (startup, daily or a direct catch-up call) started in one behaviour.
MaxJobs == 2
\* Sub-tasks whose external source fails or returns nothing in one behaviour.
MaxFaults == 1

\* Runs of the bulk script in one behaviour.
MaxRuns == 2
\* Games (external ids 1..MaxGames) the schedule can list.
MaxGames == 2
\* Game records in one schedule response.
MaxFeed == 1
\* Players in the players table (ids 1..MaxPlayers).
MaxPlayers == 2
\* Rows the injuries table can hold.
MaxRows == 3

\* Days on which a prediction request is made.
MaxRequestDays == 14

\* Pieces (words, sentence ends, paragraph breaks) a text is made of.
MaxPieces == 4
\* Iterations of the chunking loop followed in one call.
MaxChunks == 14

\* JSON null / a key the ledger does not hold (dict.get returns None).
None == -1

\* ---------------------------------------------------------------- variables
VARIABLES
    \* api/main.py
    auto_update_running,      \* _auto_update_running
    startup_update_results,   \* _startup_update_results
    tasks,                    \* background tasks: slot -> [kind, pc]
    responses,                \* slot -> status returned by the trigger endpoint
    launched,                 \* lifespan() already created the startup task
    \* the clock and the progress ledger (ingestion/scheduler.py)
    now,                      \* datetime.now(), in hours
    elapsed,                  \* clock ticks taken so far
    progress_file,            \* data/ingestion_progress.json: [state, data]
    wr,                       \* a save_progress in flight: [pc, key, data]
    written,                  \* per key, the value of the latest completed write
    writes,                   \* completed writes so far
    \* ingestion/startup_updates.py: the job in progress
    current_season,           \* scheduler.CURRENT_SEASON, set when the module is imported
    job,                      \* [kind, pc]: the running job and its next sub-task
    jobs_started,
    results,                  \* the job's results map: key -> outcome
    errors,                   \* results["errors"]: the names of the sub-tasks that raised
    attempted,                \* the sub-tasks attempted so far, in order
    contacted,                \* the sub-tasks that contacted their external source
    stats_seeded,             \* player_season_stats holds at least 100 rows
    cu,                       \* catchup_game_logs locals: [last, today, start, days_missed]
    fetches,                  \* the fetches of the current catch-up call, in order
    faults,                   \* source failures so far
    down,                     \* the sub-tasks of the job whose source was unavailable
    \* scripts/ingest_all_seasons.py: the bulk multi-season job
    bulk,                     \* [pc, queue, season]: the run and the season in hand
    bulk_runs,                \* runs of the script started so far
    committed,                \* seasons whose downloaded stats were committed to the store
    \* ingestion/games.py: the games table
    games,                    \* nhl_game_id -> row, or NoGame
    upserts,                  \* nhl_game_id -> the scores the latest pass sent for it
    \* ingestion/espn_injuries.py, ingestion/injuries.py: the injuries table
    injuries,                 \* the rows, in id order: [player_id, is_active]
    asserted,                 \* the players the source listed in the latest completed pass
    last_pass,                \* the latest completed pass: "none", "espn" or "nhl"
    last_feed,                \* the people the source listed in that pass
    \* agents/predictions.py: the prediction engine
    pstore,                   \* what the engine's queries find for the player and the teams
    calc,                     \* the locals of _calculate_player_prediction at its return
    prediction,               \* the outcome of the latest player prediction
    roster,                   \* skater -> the team, the game-log aggregate and the season row
    matchup,                  \* the outcome of the latest matchup prediction
    \* agents/copilot.py: one call of PowerplAICopilot.query
    classification,           \* what _classify_query returned
    rq,                       \* the call: [pc, include_rag, invoked, sources, context_parts, failed]
    fp,                       \* _fetch_predictions: [pc, timeframe, today, target_date]
    lr,                       \* get_stat_leaders: the request, the response, the statements
    ns,                       \* one injury entry: [pc, source, status, normalized]
    ck                        \* chunk_text: [pc, text, chunk_size, overlap, start, chunks]

latchVars == <<auto_update_running, startup_update_results, tasks, responses, launched>>

clockVars == <<now, elapsed>>

ledgerAux == <<wr, written, writes>>

jobVars ==
    <<current_season, job, jobs_started, results, errors, attempted, contacted,
      stats_seeded, cu, fetches, faults, down>>

bulkVars == <<bulk, bulk_runs, committed>>

gameVars == <<games, upserts>>

injuryVars == <<injuries, asserted, last_pass, last_feed>>

storeVars == <<bulkVars, gameVars, injuryVars>>

predictVars == <<pstore, calc, prediction>>

matchupVars == <<roster, matchup>>

routerVars == <<classification, rq>>

\* The calls that stand alone.
callVars == <<fp, lr, ns, ck>>

agentVars == <<predictVars, matchupVars, routerVars, callVars>>

vars == <<latchVars, clockVars, progress_file, ledgerAux, jobVars, storeVars, agentVars>>

\* What the actions of each subsystem leave alone.
latchFrame == <<clockVars, progress_file, ledgerAux, jobVars, storeVars, agentVars>>

ledgerFrame == <<latchVars, clockVars, jobVars, storeVars, agentVars>>

jobFrame == <<latchVars, clockVars, ledgerAux, storeVars, agentVars>>

bulkFrame == <<latchVars, clockVars, ledgerAux, jobVars, gameVars, injuryVars, agentVars>>

gameFrame ==
    <<latchVars, clockVars, progress_file, ledgerAux, jobVars, bulkVars, injuryVars,
      agentVars>>

injuryFrame ==
    <<latchVars, clockVars, progress_file, ledgerAux, jobVars, bulkVars, gameVars,
      agentVars>>

predictFrame ==
    <<latchVars, clockVars, progress_file, ledgerAux, jobVars, storeVars, matchupVars,
      routerVars, callVars>>

matchupFrame ==
    <<latchVars, clockVars, progress_file, ledgerAux, jobVars, storeVars, predictVars,
      routerVars, callVars>>

routerFrame ==
    <<latchVars, clockVars, progress_file, ledgerAux, jobVars, storeVars, predictVars,
      matchupVars, callVars>>

\* Everything but the stand-alone calls.
callFrame ==
    <<latchVars, clockVars, progress_file, ledgerAux, jobVars, storeVars, predictVars,
      matchupVars, routerVars>>

targetFrame == <<callFrame, lr, ns, ck>>

\* =====================================================================
\* api/main.py: the latch, the startup launch and the trigger endpoints
\* =====================================================================
TaskIds == 1..MaxTasks

NoTask == [kind |-> "none", pc |-> "none"]

FreeSlots == {t \in TaskIds : tasks[t].kind = "none" /\ responses[t] = "none"}

\* The next unused slot (requests are numbered in arrival order).
NextSlot == CHOOSE t \in FreeSlots : \A u \in FreeSlots : t <= u

Running == {t \in TaskIds : tasks[t].pc = "running"}

InitLatch ==
    /\ auto_update_running = FALSE
    /\ startup_update_results = "none"
    /\ tasks = [t \in TaskIds |-> NoTask]
    /\ responses = [t \in TaskIds |-> "none"]
    /\ launched = FALSE

\* lifespan(): asyncio.create_task(run_startup_updates()) when auto_update_enabled.
Lifespan ==
    /\ ~launched
    /\ FreeSlots # {}
    /\ launched' = TRUE
    /\ tasks' = [tasks EXCEPT ![NextSlot] = [kind |-> "startup", pc |-> "scheduled"]]
    /\ responses' = [responses EXCEPT ![NextSlot] = "launched"]
    /\ UNCHANGED <<auto_update_running, startup_update_results, latchFrame>>

\* POST /api/updates/run: the handler body runs without suspension; the
\* background task it adds starts only after the response has been sent.
trigger_updates ==
    /\ FreeSlots # {}
    /\ IF auto_update_running
       THEN /\ responses' = [responses EXCEPT ![NextSlot] = "already_running"]
            /\ UNCHANGED tasks
       ELSE /\ responses' = [responses EXCEPT ![NextSlot] = "started"]
            /\ tasks' = [tasks EXCEPT ![NextSlot] = [kind |-> "startup", pc |-> "scheduled"]]
    /\ UNCHANGED <<auto_update_running, startup_update_results, launched, latchFrame>>

\* POST /api/updates/daily.
trigger_daily_updates ==
    /\ FreeSlots # {}
    /\ IF auto_update_running
       THEN /\ responses' = [responses EXCEPT ![NextSlot] = "already_running"]
            /\ UNCHANGED tasks
       ELSE /\ responses' = [responses EXCEPT ![NextSlot] = "started"]
            /\ tasks' = [tasks EXCEPT ![NextSlot] = [kind |-> "daily", pc |-> "scheduled"]]
    /\ UNCHANGED <<auto_update_running, startup_update_results, launched, latchFrame>>

\* run_startup_updates() up to its first await: re-check the latch, then set it.
run_startup_updates_begin(t) ==
    /\ tasks[t] = [kind |-> "startup", pc |-> "scheduled"]
    /\ IF auto_update_running
       THEN /\ tasks' = [tasks EXCEPT ![t].pc = "returned"]
            /\ UNCHANGED auto_update_running
       ELSE /\ tasks' = [tasks EXCEPT ![t].pc = "running"]
            /\ auto_update_running' = TRUE
    /\ UNCHANGED <<startup_update_results, responses, launched, latchFrame>>

\* run_daily() up to its first await: sets the latch without re-checking it.
run_daily_begin(t) ==
    /\ tasks[t] = [kind |-> "daily", pc |-> "scheduled"]
    /\ tasks' = [tasks EXCEPT ![t].pc = "running"]
    /\ auto_update_running' = TRUE
    /\ UNCHANGED <<startup_update_results, responses, launched, latchFrame>>

\* The awaited job returns or raises; the finally clause clears the latch.
\* run_startup_updates stores {"error": ...} on an exception; run_daily lets
\* the exception propagate and leaves the results handle as it was.
job_finish(t, raised) ==
    /\ tasks[t].pc = "running"
    /\ tasks' = [tasks EXCEPT ![t].pc = "finished"]
    /\ auto_update_running' = FALSE
    /\ startup_update_results' =
         IF raised
         THEN (IF tasks[t].kind = "startup" THEN "error" ELSE startup_update_results)
         ELSE tasks[t].kind
    /\ UNCHANGED <<responses, launched, latchFrame>>

\* =====================================================================
\* The clock
\* =====================================================================
\* One clock tick, in hours: below every freshness threshold, and 8 ticks a day.
TickHours == 3

HoursPerDay == 24

\* date.today()
Today == now \div HoursPerDay

\* A job is over within one tick: the clock passes at most one tick
\* boundary while a job runs, at any point of it.
TickAllowed == job.pc = "done" \/ ~job.ticked

tick ==
    /\ elapsed < MaxTicks
    /\ TickAllowed
    /\ now' = now + TickHours
    /\ elapsed' = elapsed + 1
    /\ job' = IF job.pc = "done" THEN job ELSE [job EXCEPT !.ticked = TRUE]
    /\ UNCHANGED <<latchVars, progress_file, ledgerAux, current_season, jobs_started,
                   results, errors, attempted, contacted, stats_seeded, cu, fetches,
                   faults, down, storeVars, agentVars>>

\* A day passes.
tick_day ==
    /\ elapsed < MaxTicks
    /\ TickAllowed
    /\ now' = now + HoursPerDay
    /\ elapsed' = elapsed + 1
    /\ job' = IF job.pc = "done" THEN job ELSE [job EXCEPT !.ticked = TRUE]
    /\ UNCHANGED <<latchVars, progress_file, ledgerAux, current_season, jobs_started,
                   results, errors, attempted, contacted, stats_seeded, cu, fetches,
                   faults, down, storeVars, agentVars>>

\* =====================================================================
\* ingestion/scheduler.py: the progress ledger file
\* =====================================================================
MarkerKeys ==
    {"last_update", "current_season_last_update", "last_game_log_date",
     "last_injury_update", "last_team_stats_update", "last_roster_sync",
     "last_moneypuck_update"}

\* The record load_progress returns when the file is missing or unreadable.
\* Keys the Python dict does not hold read as None through dict.get.
DefaultProgress ==
    [completed_seasons |-> <<>>,
     last_update |-> None,
     current_season_last_update |-> None,
     last_game_log_date |-> None,
     last_injury_update |-> None,
     last_team_stats_update |-> None,
     last_roster_sync |-> None,
     last_moneypuck_update |-> None]

\* The file: absent, ok (holding data) or corrupt (empty or cut short, so
\* that json.loads raises).
AbsentFile == [state |-> "absent", data |-> DefaultProgress]

OkFile(data) == [state |-> "ok", data |-> data]

load_progress(file) ==
    IF file.state = "ok" THEN file.data ELSE DefaultProgress

\* Path.write_text opens the file with mode "w", which truncates it, and
\* writes the text afterwards: between the two the file is empty.
TruncatedFile == [state |-> "corrupt", data |-> DefaultProgress]

\* The file as load_progress finds it when read_text raises (the file is
\* locked or in the hands of another writer, or its bytes do not decode):
\* what the file holds stays, the except clause returns the defaults.
Unreadable(file) == [file EXCEPT !.state = "unreadable"]

\* What load_progress is given to read.
ReadOf(file, read_raises) == IF read_raises THEN Unreadable(file) ELSE file

\* save_progress run to completion.
save_progress(progress) == OkFile(progress)

SeqContains(seq, x) == \E i \in 1..Len(seq) : seq[i] = x

\* The read-modify part of a marker setter (set_last_game_log_date,
\* set_last_injury_update, ..., mark_current_season_updated).
set_marker(file, key, value) == [load_progress(file) EXCEPT ![key] = value]

\* The read-modify part of mark_season_complete.
mark_season_complete(file, season, nowv) ==
    LET progress == load_progress(file)
        seasons == IF SeqContains(progress.completed_seasons, season)
                   THEN progress.completed_seasons
                   ELSE Append(progress.completed_seasons, season)
    IN  [progress EXCEPT !.completed_seasons = seasons, !.last_update = nowv]

NoWrite == [pc |-> "idle", key |-> "none", data |-> DefaultProgress]

InitClock ==
    /\ now = 0
    /\ elapsed = 0

InitLedger ==
    /\ progress_file = AbsentFile
    /\ wr = NoWrite
    /\ written = DefaultProgress
    /\ writes = 0

\* A marker setter up to the moment write_text has opened the file.
write_marker_begin(key, read_raises) ==
    /\ wr.pc = "idle"
    /\ writes < MaxWrites
    /\ wr' = [pc |-> "writing", key |-> key,
              data |-> set_marker(ReadOf(progress_file, read_raises), key, now)]
    /\ progress_file' = TruncatedFile
    /\ UNCHANGED <<written, writes, ledgerFrame>>

\* mark_season_complete up to the moment write_text has opened the file.
mark_season_complete_begin(season, read_raises) ==
    /\ wr.pc = "idle"
    /\ writes < MaxWrites
    /\ wr' = [pc |-> "writing", key |-> "completed_seasons",
              data |-> mark_season_complete(ReadOf(progress_file, read_raises), season, now)]
    /\ progress_file' = TruncatedFile
    /\ UNCHANGED <<written, writes, ledgerFrame>>

\* write_text writes the text and closes the file: the write has completed.
write_finish ==
    /\ wr.pc = "writing"
    /\ progress_file' = save_progress(wr.data)
    /\ written' =
         IF wr.key = "completed_seasons"
         THEN [written EXCEPT !.completed_seasons = wr.data.completed_seasons,
                              !.last_update = wr.data.last_update]
         ELSE [written EXCEPT ![wr.key] = wr.data[wr.key]]
    /\ writes' = writes + 1
    /\ wr' = NoWrite
    /\ UNCHANGED ledgerFrame

\* The process dies inside write_text and is restarted: the file stays as
\* the interrupted write left it.
crash_in_write ==
    /\ wr.pc = "writing"
    /\ wr' = NoWrite
    /\ UNCHANGED <<progress_file, written, writes, ledgerFrame>>

\* =====================================================================
\* The calendar (dates are day numbers, years have 365 days)
\* =====================================================================
DaysPerYear == 365

\* The day of the year of September 1 and of October 1 (January 1 is day 0).
SepFirst == 243

OctFirst == 273

\* CURRENT_SEASON as the import of scheduler.py on day d evaluates it:
\* the year from September on, the year before until August.
CurrentSeasonOn(d) ==
    IF d % DaysPerYear >= SepFirst THEN d \div DaysPerYear ELSE (d \div DaysPerYear) - 1

\* date(current_year, 10, 1)
season_start(season) == season * DaysPerYear + OctFirst

Max(a, b) == IF a >= b THEN a ELSE b

\* =====================================================================
\* ingestion/startup_updates.py: catch-up, throttled sub-tasks, the jobs
\* =====================================================================
MAX_CATCHUP_DAYS == 14

INJURY_HOURS == 4

TEAM_STATS_HOURS == 12

MONEYPUCK_HOURS == 12

ROSTER_HOURS == 24

\* get_last_game_log_date, get_last_injury_update, ...: the stored value, or
\* None when the key is unset.
get_marker(file, key) == load_progress(file)[key]

\* Mutant: the first run is not capped at MAX_CATCHUP_DAYS.
catchup_start_date_uncapped(last, today, season) ==
    IF last = None THEN season_start(season) ELSE last + 1

\* Mutant: the day of the last update is fetched again.
catchup_start_date_inclusive(last, today, season) ==
    IF last = None
    THEN Max(season_start(season), today - MAX_CATCHUP_DAYS)
    ELSE last

\* The start date catchup_game_logs computes.
catchup_start_date(last, today, season) ==
    IF last = None
    THEN Max(season_start(season), today - MAX_CATCHUP_DAYS)
    ELSE last + 1

\* Mutant: any marker counts as fresh.
recently_updated_ever(last, nowv, threshold) == last # None

\* The freshness test of the throttled sub-tasks.
recently_updated(last, nowv, threshold) ==
    last # None /\ (nowv - last) < threshold

\* The order of the sub-tasks of run_startup_updates and run_daily_updates,
\* by the key each one has in the results map.
StartupOrder ==
    <<"moneypuck", "schedule", "game_logs", "injuries", "team_stats", "rosters",
      "moneypuck_refresh">>

DailyOrder ==
    <<"schedule", "game_logs", "injuries", "team_stats", "rosters", "moneypuck">>

ResultKeys ==
    {"moneypuck", "schedule", "game_logs", "injuries", "team_stats", "rosters",
     "moneypuck_refresh"}

OrderOf(kind) ==
    IF kind = "startup" THEN StartupOrder
    ELSE IF kind = "daily" THEN DailyOrder
    ELSE <<"game_logs">>

IndexOf(seq, x) == CHOOSE i \in 1..Len(seq) : seq[i] = x

\* The sub-task that follows `name` in the job, "done" after the last one.
next_subtask(kind, name) ==
    LET order == OrderOf(kind)
        i == IndexOf(order, name)
    IN  IF i < Len(order) THEN order[i + 1] ELSE "done"

\* The locals of the latest catchup_game_logs call, how it ended (state), and
\* what the call before it had read and how it ended (prior).
NoCatchup ==
    [last |-> None, today |-> None, start |-> None, days_missed |-> 0,
     state |-> "none",
     prior |-> [last |-> None, today |-> None, state |-> "none"]]

CatchupLocals(last, start, days_missed, state) ==
    [last |-> last, today |-> Today, start |-> start, days_missed |-> days_missed,
     state |-> state,
     prior |-> [last |-> cu.last, today |-> cu.today, state |-> cu.state]]

Idle == [kind |-> "none", pc |-> "done", ticked |-> FALSE]

InitJobIdle ==
    /\ current_season = CurrentSeasonOn(Today)
    /\ job = Idle
    /\ jobs_started = 0
    /\ results = [k \in ResultKeys |-> "unset"]
    /\ errors = <<>>
    /\ attempted = <<>>
    /\ contacted = {}
    /\ stats_seeded = TRUE
    /\ cu = NoCatchup
    /\ fetches = <<>>
    /\ faults = 0
    /\ down = {}

\* A sub-task returned `outcome`: the job stores it and moves on.
Returned(name, outcome) ==
    /\ results' = [results EXCEPT ![name] = outcome]
    /\ errors' = errors
    /\ job' = [job EXCEPT !.pc = next_subtask(job.kind, name)]

\* Mutant: the exception ends the job.
Raised_aborts(name) ==
    /\ results' = results
    /\ errors' = Append(errors, name)
    /\ job' = [job EXCEPT !.pc = "done"]

\* A sub-task raised: the except clause appends "<name>: ..." to
\* results["errors"] and the job moves on.
Raised(name) ==
    /\ results' = results
    /\ errors' = Append(errors, name)
    /\ job' = [job EXCEPT !.pc = next_subtask(job.kind, name)]

StartJob(kind) ==
    /\ job.pc = "done"
    /\ jobs_started < MaxJobs
    /\ jobs_started' = jobs_started + 1
    /\ job' = [kind |-> kind, pc |-> OrderOf(kind)[1], ticked |-> FALSE]
    /\ results' = [k \in ResultKeys |-> "unset"]
    /\ errors' = <<>>
    /\ attempted' = <<>>
    /\ contacted' = {}
    /\ down' = {}
    /\ UNCHANGED <<current_season, stats_seeded, cu, fetches, faults, progress_file,
                   jobFrame>>

\* run_startup_updates is entered.
start_startup == StartJob("startup")

\* run_daily_updates is entered.
start_daily == StartJob("daily")

\* catchup_game_logs called on its own.
start_catchup == StartJob("catchup")

At(kind, name) == job.kind = kind /\ job.pc = name

\* The adapters that catch the exception of a failed request themselves:
\* fetch_espn_injuries returns [], ingest_player_game_logs returns 0,
\* sync_team_rosters notes the team in its own statistics and goes on.
SwallowingAdapters == {"injuries", "game_logs", "rosters"}

\* What the caller of an adapter gets when the source answers `outcome`: an
\* unavailable source ("down": timeout, non-2xx, malformed body) is an empty
\* result from an adapter that catches, an exception from one that does not.
adapter_yields(adapter, outcome) ==
    IF outcome = "down"
    THEN (IF adapter \in SwallowingAdapters THEN "empty" ELSE "raise")
    ELSE outcome

\* The external source of sub-task `name` answers with data ("ok") or with
\* nothing ("empty"), is unavailable ("down"), or the sub-task fails for
\* another reason ("raise").
SourceAnswers(name, outcome) ==
    /\ IF outcome = "ok"
       THEN faults' = faults
       ELSE faults < MaxFaults /\ faults' = faults + 1
    /\ down' = IF outcome = "down" THEN down \cup {name} ELSE down

\* ---- catchup_game_logs -------------------------------------------------
\* Up to the up-to-date test: read the ledger and today's date, compute the
\* start date, and return the zero result when start_date >= today.
catchup_begin ==
    /\ job.kind \in {"startup", "catchup"}
    /\ job.pc = "game_logs"
    /\ LET last == get_marker(progress_file, "last_game_log_date")
           start == catchup_start_date(last, Today, current_season)
       IN  /\ attempted' = Append(attempted, "game_logs")
           /\ fetches' = <<>>
           /\ IF start >= Today
              THEN /\ cu' = CatchupLocals(last, start, 0, "returned")
                   /\ Returned("game_logs", "ok")
              ELSE /\ cu' = CatchupLocals(last, start, Today - start, "running")
                   /\ job' = [job EXCEPT !.pc = "cu_schedule"]
                   /\ UNCHANGED <<results, errors>>
    /\ UNCHANGED <<current_season, jobs_started, contacted, stats_seeded, faults, down,
                   progress_file, jobFrame>>

\* Step 1: ingest_schedule_range(db, start_date, today - 1, client), awaited
\* to its end; an exception of the schedule source leaves catch-up.
catchup_schedule(outcome) ==
    /\ job.pc = "cu_schedule"
    /\ outcome # "empty"
    /\ SourceAnswers("game_logs", outcome)
    /\ fetches' = Append(fetches, [op |-> "schedule", from |-> cu.start, to |-> cu.today - 1])
    /\ contacted' = contacted \cup {"game_logs"}
    /\ IF adapter_yields("schedule", outcome) = "raise"
       THEN /\ Raised("game_logs")
            /\ cu' = [cu EXCEPT !.state = "raised"]
       ELSE /\ job' = [job EXCEPT !.pc = "cu_logs"]
            /\ UNCHANGED <<results, errors, cu>>
    /\ UNCHANGED <<current_season, jobs_started, attempted, stats_seeded,
                   progress_file, jobFrame>>

\* Step 2: ingest_all_player_game_logs (a failed per-player fetch counts no
\* logs and raises nothing), then set_last_game_log_date(today - 1).
catchup_logs(outcome) ==
    /\ job.pc = "cu_logs"
    /\ SourceAnswers("game_logs", outcome)
    /\ fetches' = IF cu.days_missed > 0
                  THEN Append(fetches, [op |-> "game_logs", from |-> None, to |-> None])
                  ELSE fetches
    /\ IF adapter_yields("game_logs", outcome) = "raise"
       THEN /\ Raised("game_logs")
            /\ cu' = [cu EXCEPT !.state = "raised"]
            /\ UNCHANGED progress_file
       ELSE /\ Returned("game_logs", adapter_yields("game_logs", outcome))
            /\ cu' = [cu EXCEPT !.state = "returned"]
            /\ progress_file' =
                 save_progress(set_marker(progress_file, "last_game_log_date", cu.today - 1))
    /\ UNCHANGED <<current_season, jobs_started, attempted, contacted, stats_seeded,
                   jobFrame>>

\* ---- the throttled sub-tasks --------------------------------------------
\* update_injuries, update_team_goalie_stats, update_rosters: skip when the
\* marker is fresh, else ingest and write the marker. The ingestion returns
\* (also with nothing fetched, "empty") or raises.
Throttled(name, key, threshold, reason, outcome) ==
    /\ attempted' = Append(attempted, name)
    /\ IF recently_updated(get_marker(progress_file, key), now, threshold)
       THEN /\ outcome = "ok"
            /\ Returned(name, reason)
            /\ UNCHANGED <<contacted, progress_file, faults, down>>
       ELSE /\ SourceAnswers(name, outcome)
            /\ contacted' = contacted \cup {name}
            /\ IF adapter_yields(name, outcome) = "raise"
               THEN /\ Raised(name)
                    /\ UNCHANGED progress_file
               ELSE /\ Returned(name, adapter_yields(name, outcome))
                    /\ progress_file' = save_progress(set_marker(progress_file, key, now))
    /\ UNCHANGED <<current_season, jobs_started, stats_seeded, cu, fetches, jobFrame>>

\* update_moneypuck_stats: as above, but its own try/except turns a failure
\* into a returned {"error": ...} and leaves the marker alone.
update_moneypuck_stats(name, outcome) ==
    /\ attempted' = Append(attempted, name)
    /\ IF recently_updated(get_marker(progress_file, "last_moneypuck_update"), now,
                           MONEYPUCK_HOURS)
       THEN /\ outcome = "ok"
            /\ Returned(name, "skipped_recently_updated")
            /\ UNCHANGED <<contacted, progress_file, faults, down>>
       ELSE /\ SourceAnswers(name, outcome)
            /\ contacted' = contacted \cup {name}
            /\ IF adapter_yields(name, outcome) = "raise"
               THEN /\ Returned(name, "error")
                    /\ UNCHANGED progress_file
               ELSE /\ Returned(name, "ok")
                    /\ progress_file' =
                         save_progress(set_marker(progress_file, "last_moneypuck_update", now))
    /\ UNCHANGED <<current_season, jobs_started, stats_seeded, cu, fetches, jobFrame>>

\* A sub-task that always runs: it contacts its source, then returns (and the
\* job writes `key`, if any) or raises.
Forced(name, key, value, outcome) ==
    /\ SourceAnswers(name, outcome)
    /\ attempted' = Append(attempted, name)
    /\ contacted' = contacted \cup {name}
    /\ IF adapter_yields(name, outcome) = "raise"
       THEN /\ Raised(name)
            /\ UNCHANGED progress_file
       ELSE /\ Returned(name, adapter_yields(name, outcome))
            /\ progress_file' =
                 IF key = "none" THEN progress_file
                 ELSE save_progress(set_marker(progress_file, key, value))
    /\ UNCHANGED <<current_season, jobs_started, stats_seeded, cu, fetches, jobFrame>>

\* ---- run_startup_updates -------------------------------------------------
\* 0. Seed the advanced stats when player_season_stats holds under 100 rows.
startup_seed(outcome) ==
    /\ At("startup", "moneypuck")
    /\ attempted' = Append(attempted, "moneypuck")
    /\ IF stats_seeded
       THEN /\ outcome = "ok"
            /\ Returned("moneypuck", "skipped_existing")
            /\ UNCHANGED <<contacted, stats_seeded, faults, down>>
       ELSE /\ SourceAnswers("moneypuck", outcome)
            /\ contacted' = contacted \cup {"moneypuck"}
            /\ IF adapter_yields("moneypuck", outcome) = "raise"
               THEN /\ Raised("moneypuck")
                    /\ UNCHANGED stats_seeded
               ELSE /\ Returned("moneypuck", "loaded")
                    /\ stats_seeded' = (outcome = "ok")
    /\ UNCHANGED <<current_season, jobs_started, cu, fetches, progress_file, jobFrame>>

\* 1. refresh_todays_schedule
startup_schedule(outcome) ==
    /\ At("startup", "schedule")
    /\ outcome # "empty"
    /\ Forced("schedule", "none", None, outcome)

\* 3. update_injuries
startup_injuries(outcome) ==
    /\ At("startup", "injuries")
    /\ Throttled("injuries", "last_injury_update", INJURY_HOURS,
                 "skipped_recently_updated", outcome)

\* 4. update_team_goalie_stats
startup_team_stats(outcome) ==
    /\ At("startup", "team_stats")
    /\ outcome # "empty"
    /\ Throttled("team_stats", "last_team_stats_update", TEAM_STATS_HOURS,
                 "skipped_recently_updated", outcome)

\* 5. update_rosters
startup_rosters(outcome) ==
    /\ At("startup", "rosters")
    /\ outcome # "empty"
    /\ Throttled("rosters", "last_roster_sync", ROSTER_HOURS,
                 "skipped_recently_synced", outcome)

\* 6. update_moneypuck_stats
startup_moneypuck_refresh(outcome) ==
    /\ At("startup", "moneypuck_refresh")
    /\ outcome # "empty"
    /\ update_moneypuck_stats("moneypuck_refresh", outcome)

\* ---- run_daily_updates ---------------------------------------------------
\* ingest_schedule_range(db, today, today + 7)
daily_schedule(outcome) ==
    /\ At("daily", "schedule")
    /\ outcome # "empty"
    /\ Forced("schedule", "none", None, outcome)

\* ingest_all_player_game_logs, then set_last_game_log_date(date.today())
daily_game_logs(outcome) ==
    /\ At("daily", "game_logs")
    /\ Forced("game_logs", "last_game_log_date", Today, outcome)

\* ingest_espn_injuries, then set_last_injury_update()
daily_injuries(outcome) ==
    /\ At("daily", "injuries")
    /\ Forced("injuries", "last_injury_update", now, outcome)

\* refresh_all_stats, then set_last_team_stats_update()
daily_team_stats(outcome) ==
    /\ At("daily", "team_stats")
    /\ outcome # "empty"
    /\ Forced("team_stats", "last_team_stats_update", now, outcome)

\* sync_team_rosters, then set_last_roster_sync()
daily_rosters(outcome) ==
    /\ At("daily", "rosters")
    /\ outcome # "empty"
    /\ Forced("rosters", "last_roster_sync", now, outcome)

\* update_moneypuck_stats(db, season_year)
daily_moneypuck(outcome) ==
    /\ At("daily", "moneypuck")
    /\ outcome # "empty"
    /\ update_moneypuck_stats("moneypuck", outcome)

\* The process is restarted between two jobs: scheduler.py is imported
\* again and CURRENT_SEASON evaluated anew.
restart ==
    /\ job.pc = "done"
    /\ current_season' = CurrentSeasonOn(Today)
    /\ job' = Idle
    /\ UNCHANGED <<jobs_started, results, errors, attempted, contacted, stats_seeded,
                   cu, fetches, faults, down, progress_file, jobFrame>>

\* How a step that depends on something outside can end: with data, with
\* nothing, with an exception.
Outcomes == {"ok", "empty", "raise"}

\* What can happen to a sub-task of a job: the above, or its external
\* source is unavailable.
Answers == Outcomes \cup {"down"}

\* =====================================================================
\* scripts/ingest_all_seasons.py: the bulk multi-season job
\* =====================================================================
\* IngestionConfig.seasons: the configured seasons, oldest first.
AllSeasons == [i \in 1..NumSeasons |-> i]

\* IngestionConfig.get_seasons_to_process
get_seasons_to_process(file, skip_completed) ==
    IF skip_completed
    THEN SelectSeq(AllSeasons,
                   LAMBDA s : ~SeqContains(load_progress(file).completed_seasons, s))
    ELSE AllSeasons

\* No run in progress.
BulkIdle == [pc |-> "idle", queue |-> <<>>]

\* The loop of ingest_all_seasons moves to the next season, or ends.
NextSeason(queue) ==
    IF Len(queue) > 1 THEN [pc |-> "download", queue |-> Tail(queue)] ELSE BulkIdle

InitBulk ==
    /\ bulk = BulkIdle
    /\ bulk_runs = 0
    /\ committed = {}

\* ingest_all_seasons up to the first season: select the seasons, return
\* when there are none, load the teams.
ingest_all_seasons_begin(skip_completed) ==
    /\ bulk.pc = "idle"
    /\ bulk_runs < MaxRuns
    /\ bulk_runs' = bulk_runs + 1
    /\ LET seasons == get_seasons_to_process(progress_file, skip_completed)
       IN  bulk' = IF seasons = <<>>
                   THEN BulkIdle
                   ELSE [pc |-> "download", queue |-> seasons]
    /\ UNCHANGED <<committed, progress_file, bulkFrame>>

\* ingest_season_moneypuck, the download: an exception of
\* download_season_stats is caught and the function returns 0, so that
\* ingest_single_season goes on as after an ingest.
ingest_season_moneypuck_download(outcome) ==
    /\ bulk.pc = "download"
    /\ outcome # "empty"
    /\ bulk' = [bulk EXCEPT !.pc = IF outcome = "ok" THEN "write" ELSE "mark"]
    /\ UNCHANGED <<bulk_runs, committed, progress_file, bulkFrame>>

\* ingest_season_moneypuck, the store writes and their commit: an exception
\* of the store leaves the function and the session block, and the except
\* clause of ingest_single_season records the error.
ingest_season_moneypuck_store(outcome) ==
    /\ bulk.pc = "write"
    /\ outcome # "empty"
    /\ IF outcome = "ok"
       THEN /\ committed' = committed \cup {Head(bulk.queue)}
            /\ bulk' = [bulk EXCEPT !.pc = "mark"]
       ELSE /\ committed' = committed
            /\ bulk' = NextSeason(bulk.queue)
    /\ UNCHANGED <<bulk_runs, progress_file, bulkFrame>>

\* ingest_single_season after the session block: result["success"] = True
\* and mark_season_complete(season).
ingest_single_season_mark ==
    /\ bulk.pc = "mark"
    /\ progress_file' =
         save_progress(mark_season_complete(progress_file, Head(bulk.queue), now))
    /\ bulk' = NextSeason(bulk.queue)
    /\ UNCHANGED <<bulk_runs, committed, bulkFrame>>

\* The script dies while a season is in hand; in_write: inside the
\* write_text of mark_season_complete, after the file was opened (and so
\* truncated) and before the text is written.
bulk_crash(in_write) ==
    /\ bulk.pc # "idle"
    /\ in_write => bulk.pc = "mark"
    /\ bulk' = BulkIdle
    /\ progress_file' = IF in_write THEN TruncatedFile ELSE progress_file
    /\ UNCHANGED <<bulk_runs, committed, bulkFrame>>

\* =====================================================================
\* ingestion/games.py: the schedule upsert
\* =====================================================================
GameIds == 1..MaxGames

\* A score as the schedule carries it: absent (None) or a number of goals.
Scores == {None} \cup {0, 2}

\* gameState as the schedule carries it ("missing": the key is absent).
GameStates == {"missing", "LIVE", "FINAL", "OFF"}

\* The game records the schedule API can return (home: homeTeam.abbrev).
GameData ==
    [id : GameIds \cup {None}, home : {None, 1}, home_score : Scores,
     away_score : Scores, gameState : GameStates]

\* gameWeek flattened: the records of one response, in order.
Feeds == UNION {[1..n -> GameData] : n \in 0..MaxFeed}

\* No row with this nhl_game_id.
NoGame ==
    [home_score |-> None, away_score |-> None, game_state |-> "absent",
     is_completed |-> FALSE]

NoUpsert == [sent |-> FALSE, home_score |-> None, away_score |-> None]

parse_game_from_schedule(game_data) ==
    [nhl_game_id |-> game_data.id,
     home_team_abbrev |-> game_data.home,
     home_score |-> game_data.home_score,
     away_score |-> game_data.away_score,
     game_state |-> IF game_data.gameState = "missing" THEN "FUT" ELSE game_data.gameState,
     is_completed |-> game_data.gameState \in {"FINAL", "OFF"}]

\* if not game["nhl_game_id"] or not game["home_team_abbrev"]: continue
Skipped(game) == game.nhl_game_id = None \/ game.home_team_abbrev = None

\* INSERT ... ON CONFLICT (nhl_game_id) DO UPDATE SET home_score =
\* EXCLUDED.home_score, away_score = EXCLUDED.away_score, game_state =
\* EXCLUDED.game_state, is_completed = EXCLUDED.is_completed
upsert_game(table, game) ==
    [table EXCEPT ![game.nhl_game_id] =
        [home_score |-> game.home_score, away_score |-> game.away_score,
         game_state |-> game.game_state, is_completed |-> game.is_completed]]

\* The loop over the records of the response.
RECURSIVE upsert_all(_, _)
upsert_all(table, feed) ==
    IF feed = <<>>
    THEN table
    ELSE LET game == parse_game_from_schedule(Head(feed))
         IN  upsert_all(IF Skipped(game) THEN table ELSE upsert_game(table, game),
                        Tail(feed))

\* Per game id, the scores of the last record of the feed that was upserted.
RECURSIVE sent_scores(_, _)
sent_scores(sent, feed) ==
    IF feed = <<>>
    THEN sent
    ELSE LET game == parse_game_from_schedule(Head(feed))
         IN  sent_scores(IF Skipped(game)
                         THEN sent
                         ELSE [sent EXCEPT ![game.nhl_game_id] =
                                 [sent |-> TRUE, home_score |-> game.home_score,
                                  away_score |-> game.away_score]],
                         Tail(feed))

InitGames ==
    /\ games = [g \in GameIds |-> NoGame]
    /\ upserts = [g \in GameIds |-> NoUpsert]

\* ingest_schedule_for_date: fetch the schedule (get_schedule raises on a
\* failed request, and nothing is written), upsert each record, commit.
ingest_schedule_for_date(feed, raised) ==
    /\ games' = IF raised THEN games ELSE upsert_all(games, feed)
    /\ upserts' = IF raised
                  THEN [g \in GameIds |-> NoUpsert]
                  ELSE sent_scores([g \in GameIds |-> NoUpsert], feed)
    /\ UNCHANGED gameFrame

\* =====================================================================
\* ingestion/espn_injuries.py, ingestion/injuries.py: the injury passes
\* =====================================================================
\* The rows of the players table.
Players == 1..MaxPlayers

\* The people a source can list: the players, and person 0 whom the
\* players table does not hold.
Persons == 0..MaxPlayers

\* Last names: players 1 and 2 share theirs, and so on in pairs.
LastName(person) == (person + 1) \div 2

\* SELECT id FROM players WHERE name ILIKE '%<last_name>%': the players whose
\* name contains the last name.  A full name contains its last name, so the
\* second lookup, by full name, finds nobody when the first found nobody.
name_matches(person) == {p \in Players : LastName(p) = LastName(person)}

RowIds == DOMAIN injuries

RowsOf(player) == {i \in RowIds : injuries[i].player_id = player}

ActiveRows == {i \in RowIds : injuries[i].is_active}

ActivePlayers == {injuries[i].player_id : i \in ActiveRows}

\* UPDATE injuries SET is_active = FALSE WHERE is_active = TRUE
clear_active(rows) == [i \in DOMAIN rows |-> [rows[i] EXCEPT !.is_active = FALSE]]

\* The elements of a set of numbers, ascending.
RECURSIVE Ascending(_)
Ascending(S) ==
    IF S = {}
    THEN <<>>
    ELSE LET x == CHOOSE x \in S : \A y \in S : x <= y
         IN  <<x>> \o Ascending(S \ {x})

\* INSERT INTO injuries (..., is_active) VALUES (..., TRUE), one row a player.
insert_active(rows, players) ==
    rows \o [k \in 1..Cardinality(players) |->
               [player_id |-> Ascending(players)[k], is_active |-> TRUE]]

InitInjuries ==
    /\ injuries = <<>>
    /\ asserted = {}
    /\ last_pass = "none"
    /\ last_feed = {}

\* The player an entry is matched to (LIMIT 1 of an unordered query: any
\* of the matching rows), or None.
Matchings(feed) ==
    {m \in [feed -> Players \cup {None}] :
        \A e \in feed : IF name_matches(e) = {} THEN m[e] = None
                        ELSE m[e] \in name_matches(e)}

\* The injury row an entry finds for its player (SELECT id FROM injuries
\* WHERE player_id = :player_id, first row of an unordered query), or None.
ExistingRows(feed, m) ==
    {r \in [feed -> RowIds \cup {None}] :
        \A e \in feed : IF m[e] = None \/ RowsOf(m[e]) = {} THEN r[e] = None
                        ELSE r[e] \in RowsOf(m[e])}

\* ingest_espn_injuries.  An empty fetch returns before anything is cleared.
\* Two entries that reactivate different rows of one player violate the
\* unique index idx_injuries_player_active: the pass raises, uncommitted.
ingest_espn_injuries(feed) ==
    /\ IF feed = {}
       THEN /\ injuries' = injuries
            /\ asserted' = {}
            /\ last_pass' = "espn"
            /\ last_feed' = {}
       ELSE \E m \in Matchings(feed) : \E r \in ExistingRows(feed, m) :
              LET reactivated == {r[e] : e \in feed} \ {None}
                  inserted == {m[e] : e \in {x \in feed : m[x] # None /\ r[x] = None}}
                  conflict == \E a, b \in feed : m[a] = m[b] /\ r[a] # r[b]
              IN  /\ Len(injuries) + Cardinality(inserted) <= MaxRows
                  /\ IF conflict
                     THEN UNCHANGED <<injuries, asserted, last_pass, last_feed>>
                     ELSE /\ injuries' =
                               insert_active(
                                 [i \in RowIds |->
                                    [injuries[i] EXCEPT !.is_active = i \in reactivated]],
                                 inserted)
                          /\ asserted' = feed \cap Players
                          /\ last_pass' = "espn"
                          /\ last_feed' = feed
    /\ UNCHANGED injuryFrame

\* ingest_injuries (the league rosters): clear, then one row for each listed
\* player found by nhl_id; the lookup of an active row comes after the clear
\* and finds none, so the row is inserted.
ingest_injuries(feed) ==
    /\ Len(injuries) + Cardinality(feed \cap Players) <= MaxRows
    /\ injuries' = insert_active(clear_active(injuries), feed \cap Players)
    /\ asserted' = feed \cap Players
    /\ last_pass' = "nhl"
    /\ last_feed' = feed
    /\ UNCHANGED injuryFrame

\* =====================================================================
\* agents/predictions.py: the player prediction
\* =====================================================================
\* Python floats are modelled as exact fractions [n, d] in lowest terms with
\* d > 0; round() and math.exp() are modelled by what they compute.
RECURSIVE GCD(_, _)
GCD(a, b) == IF b = 0 THEN a ELSE GCD(b, a % b)

Abs(x) == IF x < 0 THEN -x ELSE x

Rat(n, d) == LET g == GCD(Abs(n), d) IN [n |-> n \div g, d |-> d \div g]

Zero == Rat(0, 1)

RAdd(a, b) ==
    LET g == GCD(a.d, b.d)
    IN  Rat(a.n * (b.d \div g) + b.n * (a.d \div g), (a.d \div g) * b.d)

RNeg(a) == [n |-> -a.n, d |-> a.d]

RSub(a, b) == RAdd(a, RNeg(b))

RMul(a, b) ==
    LET g1 == GCD(Abs(a.n), b.d)
        g2 == GCD(Abs(b.n), a.d)
    IN  Rat((a.n \div g1) * (b.n \div g2), (a.d \div g2) * (b.d \div g1))

RLess(a, b) == a.n * b.d < b.n * a.d

RMax(a, b) == IF RLess(a, b) THEN b ELSE a

RAbs(a) == [n |-> Abs(a.n), d |-> a.d]

\* round(x, ndigits) with scale = 10^ndigits, in units of 1/scale: the nearest
\* multiple, a tie going to the even one.
round(x, scale) ==
    LET whole == x.n \div x.d
        part == (x.n % x.d) * scale
        q == whole * scale + part \div x.d
        r == part % x.d
    IN  IF 2 * r > x.d \/ (2 * r = x.d /\ q % 2 = 1) THEN q + 1 ELSE q

\* math.exp, computed in fixed point with four decimals from the power series.
ExpScale == 10000

ToFixed(x) == (x.n \div x.d) * ExpScale + ((x.n % x.d) * ExpScale) \div x.d

RECURSIVE ExpSeries(_, _, _, _)
ExpSeries(x, term, k, sum) ==
    IF term = 0 THEN sum
    ELSE ExpSeries(x, (term * x) \div (k * ExpScale), k + 1, sum + term)

\* exp(-x) for x >= 0, in units of 1/ExpScale.
exp_neg(x) == (ExpScale * ExpScale) \div ExpSeries(ToFixed(x), ExpScale, 1, 0)

One == Rat(1, 1)

\* The model weights, in hundredths.
WEIGHTS ==
    [recent_form |-> 30, season_baseline |-> 25, h2h_history |-> 15,
     home_away |-> 10, goalie_matchup |-> 10, team_pace |-> 10]

Weight(key) == Rat(WEIGHTS[key], 100)

MIN_GAMES_RECENT == 3

MIN_GAMES_SEASON == 10

MIN_GAMES_H2H == 3

\* In thousandths.
LEAGUE_AVG_SAVE_PCT == 905

\* In hundredths.
LEAGUE_AVG_GOALS_PER_GAME == 310

\* The games at which the confidence score reaches 1.
FULL_CONFIDENCE_GAMES == 50

\* ---- what the queries find ----
\* The aggregate over the player's latest five game logs before the game date.
RecentRows ==
    { [games |-> 0, goals |-> 0, points |-> 0],
      [games |-> 2, goals |-> 1, points |-> 3],
      [games |-> 3, goals |-> 1, points |-> 3],
      [games |-> 3, goals |-> 0, points |-> 2],
      [games |-> 5, goals |-> 6, points |-> 6],
      [games |-> 5, goals |-> 0, points |-> 0] }

\* The player's latest player_season_stats row; every stat column is nullable.
NoRow == [present |-> FALSE]

SeasonRow(gp, g, p) == [present |-> TRUE, games_played |-> gp, goals |-> g, points |-> p]

SeasonRows ==
    { NoRow,
      SeasonRow(None, None, None),
      SeasonRow(0, 0, 0),
      SeasonRow(9, 4, 9),
      SeasonRow(10, 2, 5),
      SeasonRow(20, 10, 10),
      SeasonRow(40, 20, 50),
      SeasonRow(40, 20, None),
      SeasonRow(10, None, 5) }

\* The aggregate over the player's game logs against the opponent.
H2HRows ==
    { [games |-> 0, points |-> 0],
      [games |-> 2, points |-> 4],
      [games |-> 3, points |-> 3],
      [games |-> 10, points |-> 4] }

\* The aggregates over the player's game logs per home_away value.
SplitRows ==
    { [home |-> [games |-> 0, points |-> 0], away |-> [games |-> 0, points |-> 0]],
      [home |-> [games |-> 5, points |-> 6], away |-> [games |-> 5, points |-> 2]],
      [home |-> [games |-> 4, points |-> 0], away |-> [games |-> 0, points |-> 0]] }

\* goalie_stats: a team's starter, by save percentage in thousandths; the
\* column is nullable.
NoGoalie == [present |-> FALSE]

GoalieRow(sv) == [present |-> TRUE, save_pct |-> sv]

GoalieRows == {NoGoalie, GoalieRow(None), GoalieRow(925), GoalieRow(885)}

\* team_season_stats: a team's total goals per game, in hundredths, or no row.
PaceRows == {None, 400, 700, 740}

Stores ==
    [recent : RecentRows, season : SeasonRows, h2h : H2HRows, split : SplitRows,
     home_goalie : GoalieRows \ {GoalieRow(925)},
     away_goalie : GoalieRows \ {GoalieRow(None), GoalieRow(885)},
     home_pace : PaceRows \ {400, 740}, away_pace : PaceRows \ {None, 700}]

EmptyStore ==
    [recent |-> [games |-> 0, goals |-> 0, points |-> 0], season |-> NoRow,
     h2h |-> [games |-> 0, points |-> 0],
     split |-> [home |-> [games |-> 0, points |-> 0], away |-> [games |-> 0, points |-> 0]],
     home_goalie |-> NoGoalie, away_goalie |-> NoGoalie,
     home_pace |-> None, away_pace |-> None]

\* ---- the helper queries ----
get_recent_form(row) ==
    IF row.games = 0
    THEN [games |-> 0, ppg |-> Zero, goal_ratio |-> Rat(2, 5)]
    ELSE [games |-> row.games,
          ppg |-> Rat(row.points, row.games),
          goal_ratio |-> IF row.points > 0 THEN Rat(row.goals, row.points) ELSE Rat(2, 5)]

\* points / games_played and goals / games_played raise TypeError on a null.
season_stats_raises(row) ==
    /\ row.present
    /\ row.games_played \notin {None, 0}
    /\ (row.points = None \/ row.goals = None)

get_season_stats(row) ==
    IF ~row.present \/ row.games_played \in {None, 0}
    THEN [games |-> 0, ppg |-> Zero]
    ELSE [games |-> row.games_played, ppg |-> Rat(row.points, row.games_played)]

get_h2h_stats(row) ==
    IF row.games = 0
    THEN [games |-> 0, ppg |-> Zero]
    ELSE [games |-> row.games, ppg |-> Rat(row.points, row.games)]

get_home_away_stats(split, is_home) ==
    LET home_ppg == IF split.home.games > 0
                    THEN Rat(split.home.points, split.home.games) ELSE Zero
        away_ppg == IF split.away.games > 0
                    THEN Rat(split.away.points, split.away.games) ELSE Zero
        total == RAdd(home_ppg, away_ppg)
        avg_ppg == IF RLess(Zero, total) THEN RMul(total, Rat(1, 2)) ELSE Zero
    IN  [adjustment |-> RSub(IF is_home THEN home_ppg ELSE away_ppg, avg_ppg)]

\* ingestion/team_goalie_stats.py
get_goalie_stats(row) ==
    IF ~row.present THEN NoGoalie
    ELSE GoalieRow(IF row.save_pct = None THEN 900 ELSE row.save_pct)

get_matchup_context(store) ==
    [home_goalie |-> get_goalie_stats(store.home_goalie),
     away_goalie |-> get_goalie_stats(store.away_goalie),
     expected_total_goals |->
        IF store.home_pace # None /\ store.away_pace # None
        THEN round(Rat(store.home_pace + store.away_pace, 200), 100)
        ELSE 600]

\* ---- _calculate_player_prediction ----
\* A component enters the base only when its sample passes its minimum.
gated(n_games, min_games) == n_games >= min_games

base_components(recent, season, h2h) ==
    (IF gated(recent.games, MIN_GAMES_RECENT)
     THEN <<[name |-> "recent", value |-> recent.ppg, weight |-> WEIGHTS.recent_form]>>
     ELSE <<>>)
    \o (IF gated(season.games, MIN_GAMES_SEASON)
        THEN <<[name |-> "season", value |-> season.ppg, weight |-> WEIGHTS.season_baseline]>>
        ELSE <<>>)
    \o (IF gated(h2h.games, MIN_GAMES_H2H)
        THEN <<[name |-> "h2h", value |-> h2h.ppg, weight |-> WEIGHTS.h2h_history]>>
        ELSE <<>>)

RECURSIVE SumWeights(_)
SumWeights(components) ==
    IF components = <<>> THEN 0
    ELSE Head(components).weight + SumWeights(Tail(components))

total_weight_unnormalised(components) == 100

total_weight(components) ==
    IF components = <<>> THEN 100 ELSE SumWeights(components)

RECURSIVE weighted_sum(_, _)
weighted_sum(components, total) ==
    IF components = <<>> THEN Zero
    ELSE RAdd(RMul(Head(components).value, Rat(Head(components).weight, total)),
              weighted_sum(Tail(components), total))

goalie_adjustment(opp_goalie) ==
    IF opp_goalie.present
    THEN RMul(Rat(LEAGUE_AVG_SAVE_PCT - opp_goalie.save_pct, 1000), Rat(5, 1))
    ELSE Zero

pace_diff(context) ==
    Rat(context.expected_total_goals - 2 * LEAGUE_AVG_GOALS_PER_GAME, 100)

pace_adjustment(context) == RMul(pace_diff(context), Rat(1, 10))

clamp_points_absent(points) == points

clamp_points(points) == RMax(Zero, points)

\* 1 - e^(-x), or the floor when x is not positive.
poisson_some(x, floor) ==
    IF RLess(Zero, x) THEN Rat(ExpScale - exp_neg(x), ExpScale) ELSE floor

poisson_multi_added(x, floor) ==
    IF RLess(Zero, x)
    THEN Rat(ExpScale - exp_neg(x) + (ToFixed(x) * exp_neg(x)) \div ExpScale, ExpScale)
    ELSE floor

\* 1 - e^(-x) - x e^(-x), or the floor when x is not positive.
poisson_multi(x, floor) ==
    IF RLess(Zero, x)
    THEN Rat(ExpScale - exp_neg(x) - (ToFixed(x) * exp_neg(x)) \div ExpScale, ExpScale)
    ELSE floor

\* In hundredths.
confidence_score(games_analyzed, context) ==
    LET score == IF 100 * games_analyzed >= 100 * FULL_CONFIDENCE_GAMES THEN 100
                 ELSE (100 * games_analyzed) \div FULL_CONFIDENCE_GAMES
    IN  IF context.home_goalie.present /\ context.away_goalie.present
        THEN (IF score + 10 > 100 THEN 100 ELSE score + 10)
        ELSE score

confidence_tier_strict(score) ==
    IF score > 70 THEN "high" ELSE IF score > 40 THEN "medium" ELSE "low"

confidence_tier(score) ==
    IF score >= 70 THEN "high" ELSE IF score >= 40 THEN "medium" ELSE "low"

\* The factor strings, in the order they are appended.  The streak tests
\* read recent.get("season_ppg", 0): _get_recent_form returns no such key,
\* so the value compared against is 0 * 1.2 and 0 * 0.8.
factors_of(recent, season, h2h, adjustment, opp_goalie, context, tier) ==
    LET season_or_0 == IF gated(season.games, MIN_GAMES_SEASON) THEN season.ppg ELSE Zero
        sv_diff == Rat(LEAGUE_AVG_SAVE_PCT - opp_goalie.save_pct, 1000)
    IN  (IF ~gated(recent.games, MIN_GAMES_RECENT) THEN <<>>
         ELSE IF RLess(RMul(Zero, Rat(12, 10)), recent.ppg) THEN <<"Hot streak">>
         ELSE IF RLess(recent.ppg, RMul(Zero, Rat(8, 10))) THEN <<"Cold streak">>
         ELSE <<>>)
        \o (IF ~gated(h2h.games, MIN_GAMES_H2H) THEN <<>>
            ELSE IF RLess(RMul(season_or_0, Rat(13, 10)), h2h.ppg)
                 THEN <<"Strong history">>
            ELSE IF RLess(h2h.ppg, RMul(season_or_0, Rat(7, 10)))
                 THEN <<"Struggles">>
            ELSE <<>>)
        \o (IF RLess(Rat(1, 10), RAbs(adjustment)) THEN <<"Plays better or worse">> ELSE <<>>)
        \o (IF ~opp_goalie.present THEN <<>>
            ELSE IF RLess(Rat(1, 100), sv_diff) THEN <<"Favorable goalie matchup">>
            ELSE IF RLess(sv_diff, Rat(-1, 100)) THEN <<"Tough goalie matchup">>
            ELSE <<>>)
        \o (IF RLess(Rat(1, 2), pace_diff(context)) THEN <<"High-scoring game expected">>
            ELSE IF RLess(pace_diff(context), Rat(-1, 2)) THEN <<"Low-scoring game expected">>
            ELSE <<>>)
        \o (IF tier = "low" THEN <<"Limited data">> ELSE <<>>)

\* The locals of the calculation at its return.
calculation(store, is_home) ==
    LET recent == get_recent_form(store.recent)
        season == get_season_stats(store.season)
        h2h == get_h2h_stats(store.h2h)
        home_away == get_home_away_stats(store.split, is_home)
        context == get_matchup_context(store)
        opp_goalie == IF is_home THEN context.away_goalie ELSE context.home_goalie
        components == base_components(recent, season, h2h)
        total == total_weight(components)
        base == weighted_sum(components, total)
        adjusted ==
            RAdd(RAdd(RAdd(base, RMul(home_away.adjustment, Weight("home_away"))),
                      RMul(goalie_adjustment(opp_goalie), Weight("goalie_matchup"))),
                 RMul(pace_adjustment(context), Weight("team_pace")))
        expected_points == clamp_points(adjusted)
        goal_ratio == recent.goal_ratio
        games_analyzed == recent.games + season.games + h2h.games
        score == confidence_score(games_analyzed, context)
    IN  [status |-> "ok", recent |-> recent, season |-> season, h2h |-> h2h,
         home_away_adjustment |-> home_away.adjustment,
         context |-> context, opp_goalie |-> opp_goalie,
         components |-> components, total_weight |-> total, base |-> base,
         expected_points |-> expected_points,
         goal_ratio |-> goal_ratio,
         expected_goals |-> RMul(expected_points, goal_ratio),
         expected_assists |-> RMul(expected_points, RSub(One, goal_ratio)),
         games_analyzed |-> games_analyzed,
         confidence_score |-> score]

\* The PlayerPrediction returned: probabilities in thousandths, expected
\* values, averages, adjustments and the confidence score in hundredths.
PlayerPrediction(c, is_home) ==
    [status |-> "ok",
     is_home |-> is_home,
     prob_goal |-> round(poisson_some(c.expected_goals, Rat(5, 100)), 1000),
     prob_point |-> round(poisson_some(c.expected_points, Rat(10, 100)), 1000),
     prob_multi_point |-> round(poisson_multi(c.expected_points, Rat(2, 100)), 1000),
     expected_goals |-> round(c.expected_goals, 100),
     expected_assists |-> round(c.expected_assists, 100),
     expected_points |-> round(c.expected_points, 100),
     recent_form_ppg |->
        IF gated(c.recent.games, MIN_GAMES_RECENT) THEN round(c.recent.ppg, 100) ELSE 0,
     season_avg_ppg |->
        IF gated(c.season.games, MIN_GAMES_SEASON) THEN round(c.season.ppg, 100) ELSE 0,
     h2h_ppg |->
        IF gated(c.h2h.games, MIN_GAMES_H2H) /\ c.h2h.ppg # Zero
        THEN round(c.h2h.ppg, 100) ELSE None,
     home_away_adjustment |-> round(c.home_away_adjustment, 100),
     goalie_adjustment |-> round(goalie_adjustment(c.opp_goalie), 100),
     pace_adjustment |-> round(pace_adjustment(c.context), 100),
     opponent_goalie_sv_pct |-> IF c.opp_goalie.present THEN c.opp_goalie.save_pct ELSE None,
     confidence |-> confidence_tier(c.confidence_score),
     confidence_score |-> c.confidence_score,
     games_analyzed |-> c.games_analyzed,
     factors |-> factors_of(c.recent, c.season, c.h2h, c.home_away_adjustment,
                            c.opp_goalie, c.context, confidence_tier(c.confidence_score))]

NoCalc == [status |-> "none"]

NoPrediction == [status |-> "none"]

Raised_TypeError == [status |-> "raised"]

InitPredictIdle ==
    /\ pstore = EmptyStore
    /\ calc = NoCalc
    /\ prediction = NoPrediction

\* One call of _calculate_player_prediction on what the store holds.
calculate_player_prediction(is_home) ==
    /\ IF season_stats_raises(pstore.season)
       THEN /\ calc' = NoCalc
            /\ prediction' = Raised_TypeError
       ELSE /\ calc' = calculation(pstore, is_home)
            /\ prediction' = PlayerPrediction(calc', is_home)
    /\ UNCHANGED pstore
    /\ UNCHANGED predictFrame

\* ---- get_matchup_prediction ----
MaxSkaters == 6

Skaters == 1..MaxSkaters

\* Two teams with players and one the store does not know.
Teams == {"HOM", "AWY", "UNK"}

TOP_SCORERS == 5

\* The game-log aggregates a skater of the roster can have.
SkaterRecentRows ==
    {r \in RecentRows : (r.games = 3 /\ r.goals = 0) \/ (r.games = 5 /\ r.goals > 0)}

\* Either every skater plays for the home team, or the first half of them
\* does and the others play for the away team; no two skaters have the same
\* season points.
Rosters ==
    {[s \in Skaters |->
        [team |-> IF s <= k THEN "HOM" ELSE "AWY", recent |-> f[s],
         season |-> SeasonRow(40, 10, 20 + s)]] :
     k \in {MaxSkaters \div 2, MaxSkaters}, f \in [Skaters -> SkaterRecentRows]}

NoRoster == [s \in Skaters |-> [team |-> "none", recent |-> [games |-> 0, goals |-> 0, points |-> 0],
                                season |-> NoRow]]

NoMatchup == [status |-> "none"]

InitMatchupIdle ==
    /\ roster = NoRoster
    /\ matchup = NoMatchup

\* What the queries of _calculate_player_prediction find for a skater.
skater_store(s) == [EmptyStore EXCEPT !.recent = roster[s].recent, !.season = roster[s].season]

\* The skaters of the team with a season row, by season points, highest first.
RECURSIVE by_points_desc(_)
by_points_desc(S) ==
    IF S = {} THEN <<>>
    ELSE LET top == CHOOSE s \in S :
                        \A t \in S : roster[t].season.points <= roster[s].season.points
         IN  <<top>> \o by_points_desc(S \ {top})

team_rows(team, limit) ==
    LET rows == by_points_desc({s \in Skaters : roster[s].team = team /\ roster[s].season.present})
    IN  SubSeq(rows, 1, IF Len(rows) < limit THEN Len(rows) ELSE limit)

RECURSIVE predictions_for(_, _, _)
predictions_for(rows, team, is_home) ==
    IF rows = <<>> THEN <<>>
    ELSE <<[player_id |-> Head(rows), team |-> team]
           @@ PlayerPrediction(calculation(skater_store(Head(rows)), is_home), is_home)>>
         \o predictions_for(Tail(rows), team, is_home)

get_team_predictions(team, is_home, limit) ==
    predictions_for(team_rows(team, limit), team, is_home)

\* sorted(..., key=prob_goal, reverse=True): descending and stable.
RECURSIVE insert_by_prob_goal(_, _)
insert_by_prob_goal(seq, p) ==
    IF seq = <<>> THEN <<p>>
    ELSE IF Head(seq).prob_goal >= p.prob_goal
         THEN <<Head(seq)>> \o insert_by_prob_goal(Tail(seq), p)
         ELSE <<p>> \o seq

unsorted(seq) == seq

RECURSIVE sorted_by_prob_goal(_)
sorted_by_prob_goal(seq) ==
    IF seq = <<>> THEN <<>>
    ELSE insert_by_prob_goal(sorted_by_prob_goal(SubSeq(seq, 1, Len(seq) - 1)), seq[Len(seq)])

top_scorers_of(all_players) ==
    LET ranked == sorted_by_prob_goal(all_players)
    IN  SubSeq(ranked, 1, IF Len(ranked) < TOP_SCORERS THEN Len(ranked) ELSE TOP_SCORERS)

pace_rating(expected_total) ==
    IF expected_total >= 650 THEN "high"
    ELSE IF expected_total <= 550 THEN "low" ELSE "average"

get_matchup_prediction(home_team, away_team, top_n) ==
    /\ IF \E s \in Skaters : /\ roster[s].team \in {home_team, away_team}
                              /\ season_stats_raises(roster[s].season)
       THEN matchup' = [status |-> "raised"]
       ELSE LET home_players == get_team_predictions(home_team, TRUE, top_n)
                away_players == get_team_predictions(away_team, FALSE, top_n)
            IN  matchup' =
                    [status |-> "ok", home_team |-> home_team, away_team |-> away_team,
                     home_players |-> home_players, away_players |-> away_players,
                     top_scorers |-> top_scorers_of(home_players \o away_players),
                     pace_rating |->
                        pace_rating(get_matchup_context(EmptyStore).expected_total_goals)]
    /\ UNCHANGED roster
    /\ UNCHANGED matchupFrame

\* ---- the tables grow between two predictions ----
\* ingestion/games.py stores more game logs of the player: the aggregates over
\* the latest five and over the games against the opponent change.
ingest_player_game_logs(recent, h2h) ==
    /\ pstore' = [pstore EXCEPT !.recent = recent, !.h2h = h2h]
    /\ UNCHANGED <<calc, prediction>>
    /\ UNCHANGED predictFrame

\* The season statistics are refreshed: the player's latest row changes.
update_moneypuck_season_row(row) ==
    /\ pstore' = [pstore EXCEPT !.season = row]
    /\ UNCHANGED <<calc, prediction>>
    /\ UNCHANGED predictFrame

\* =====================================================================
\* agents/copilot.py: the query router
\* =====================================================================
QueryTypes ==
    {"stats_lookup", "matchup_prediction", "tonight_prediction", "trade_suggestion",
     "leaders", "unknown"}

\* The classifications: the type, the flags, and the teams and players
\* extracted (none or one).
Classifications ==
    [type : QueryTypes,
     is_prediction_query : BOOLEAN, is_trade_query : BOOLEAN,
     is_all_teams_query : BOOLEAN, is_leaders_query : BOOLEAN,
     teams : {<<>>, <<"TOR">>}, players : {<<>>, <<"McDavid">>}]

\* What _classify_query returns when the answer cannot be parsed.
UnknownClassification ==
    [type |-> "unknown", is_prediction_query |-> FALSE, is_trade_query |-> FALSE,
     is_all_teams_query |-> FALSE, is_leaders_query |-> FALSE,
     teams |-> <<>>, players |-> <<>>]

\* The branches of the if/elif chain, in its order, and their conditions.
Branches == <<"prediction", "trade", "all_teams", "team", "leaders">>

branch_condition(c, i) ==
    CASE i = 1 -> c.is_prediction_query \/ c.type \in {"matchup_prediction", "tonight_prediction"}
      [] i = 2 -> c.is_trade_query \/ c.type = "trade_suggestion"
      [] i = 3 -> c.is_all_teams_query
      [] i = 4 -> c.teams # <<>>
      [] i = 5 -> c.is_leaders_query \/ c.type = "leaders"

reached_regardless(c, i) == TRUE

\* An elif is reached only when every condition before it was false.
reached(c, i) == \A j \in 1..(i - 1) : ~branch_condition(c, j)

\* The source tag each dispatch records: [type, data].
SourceTag ==
    [prediction |-> [type |-> "prediction", data |-> "scoring_predictions"],
     trade |-> [type |-> "trade", data |-> "trade_suggestions"],
     all_teams |-> [type |-> "sql", data |-> "all_teams_breakdown"],
     team |-> [type |-> "sql", data |-> "team_stats"],
     leaders |-> [type |-> "sql", data |-> "league_leaders"],
     player_stats |-> [type |-> "sql", data |-> "player_stats"],
     rag |-> [type |-> "rag", data |-> "rag_results"]]

\* What a retrieval does: it returns context, returns nothing, or fails.
Retrievals == {"context", "nothing", "raise"}

\* _fetch_predictions catches the failures of the prediction engine and of the
\* schedule refresh and returns None; the other retrievals let theirs through.
CatchingDispatches == {"prediction"}

IdleQuery ==
    [pc |-> "idle", include_rag |-> FALSE, invoked |-> <<>>, sources |-> <<>>,
     context_parts |-> <<>>, failed |-> {}]

Classified(include_rag) == [IdleQuery EXCEPT !.pc = "dispatch", !.include_rag = include_rag]

InitRouterIdle ==
    /\ classification = UnknownClassification
    /\ rq = IdleQuery

\* One retrieval of the call: the dispatch is invoked; with context its
\* section and its source tag are appended; a failure that is not caught
\* ends the call with the exception.
retrieve(name, outcome, next_pc) ==
    rq' = [rq EXCEPT
             !.invoked = Append(@, name),
             !.failed = IF outcome = "raise" THEN @ \cup {name} ELSE @,
             !.context_parts = IF outcome = "context" THEN Append(@, name) ELSE @,
             !.sources = IF outcome = "context" THEN Append(@, SourceTag[name]) ELSE @,
             !.pc = IF outcome = "raise" /\ name \notin CatchingDispatches
                    THEN "raised" ELSE next_pc]

\* Step 2, the if/elif chain: one action per branch.
fetch_predictions(outcome) ==
    /\ rq.pc = "dispatch"
    /\ reached(classification, 1)
    /\ branch_condition(classification, 1)
    /\ retrieve("prediction", outcome, "players")
    /\ UNCHANGED classification
    /\ UNCHANGED routerFrame

fetch_trade_suggestions(outcome) ==
    /\ rq.pc = "dispatch"
    /\ reached(classification, 2)
    /\ branch_condition(classification, 2)
    /\ retrieve("trade", outcome, "players")
    /\ UNCHANGED classification
    /\ UNCHANGED routerFrame

fetch_all_teams_breakdown(outcome) ==
    /\ rq.pc = "dispatch"
    /\ reached(classification, 3)
    /\ branch_condition(classification, 3)
    /\ retrieve("all_teams", outcome, "players")
    /\ UNCHANGED classification
    /\ UNCHANGED routerFrame

fetch_team_stats(outcome) ==
    /\ rq.pc = "dispatch"
    /\ reached(classification, 4)
    /\ branch_condition(classification, 4)
    /\ retrieve("team", outcome, "players")
    /\ UNCHANGED classification
    /\ UNCHANGED routerFrame

fetch_league_leaders(outcome) ==
    /\ rq.pc = "dispatch"
    /\ reached(classification, 5)
    /\ branch_condition(classification, 5)
    /\ retrieve("leaders", outcome, "players")
    /\ UNCHANGED classification
    /\ UNCHANGED routerFrame

\* No condition of the chain holds.
no_dispatch ==
    /\ rq.pc = "dispatch"
    /\ \A i \in 1..Len(Branches) : ~branch_condition(classification, i)
    /\ rq' = [rq EXCEPT !.pc = "players"]
    /\ UNCHANGED classification
    /\ UNCHANGED routerFrame

\* Player statistics, when players were extracted.
fetch_player_stats(outcome) ==
    /\ rq.pc = "players"
    /\ IF classification.players # <<>>
       THEN retrieve("player_stats", outcome, "rag")
       ELSE rq' = [rq EXCEPT !.pc = "rag"]
    /\ UNCHANGED classification
    /\ UNCHANGED routerFrame

\* The vector search, when include_rag is set.
rag_search(outcome) ==
    /\ rq.pc = "rag"
    /\ IF rq.include_rag
       THEN retrieve("rag", outcome, "generate")
       ELSE rq' = [rq EXCEPT !.pc = "generate"]
    /\ UNCHANGED classification
    /\ UNCHANGED routerFrame

\* Step 3: the response is generated and returned with the sources.
generate_response ==
    /\ rq.pc = "generate"
    /\ rq' = [rq EXCEPT !.pc = "returned"]
    /\ UNCHANGED classification
    /\ UNCHANGED routerFrame

\* =====================================================================
\* agents/copilot.py: the target date of _fetch_predictions
\* =====================================================================
\* classification["timeframe"]: null, or a text, here its words in order.
NullTimeframe == [null |-> TRUE, words |-> <<>>]

Text(words) == [null |-> FALSE, words |-> words]

\* str.lower() on the words the classifier may capitalise.
Lowered == ("Tomorrow" :> "tomorrow") @@ ("Monday" :> "monday") @@ ("Feb" :> "feb")

lower(words) ==
    [i \in 1..Len(words) |->
        IF words[i] \in DOMAIN Lowered THEN Lowered[words[i]] ELSE words[i]]

day_names ==
    ("monday" :> 0) @@ ("tuesday" :> 1) @@ ("wednesday" :> 2) @@ ("thursday" :> 3)
    @@ ("friday" :> 4) @@ ("saturday" :> 5) @@ ("sunday" :> 6)

months ==
    ("jan" :> 1) @@ ("feb" :> 2) @@ ("mar" :> 3) @@ ("apr" :> 4) @@ ("may" :> 5)
    @@ ("jun" :> 6) @@ ("jul" :> 7) @@ ("aug" :> 8) @@ ("sep" :> 9) @@ ("oct" :> 10)
    @@ ("nov" :> 11) @@ ("dec" :> 12) @@ ("january" :> 1) @@ ("february" :> 2)
    @@ ("march" :> 3) @@ ("april" :> 4) @@ ("june" :> 6) @@ ("july" :> 7)
    @@ ("august" :> 8) @@ ("september" :> 9) @@ ("october" :> 10)
    @@ ("november" :> 11) @@ ("december" :> 12)

\* The digits \d{1,2} takes from the start of a word: a longer run of digits
\* gives its first two, an ordinal suffix is left to the optional group.
LeadingDigits ==
    ("3" :> 3) @@ ("3rd" :> 3) @@ ("30" :> 30) @@ ("2027" :> 20)

\* The words \d{4} matches whole.
FourDigits == ("2027" :> 2027)

\* re.search(r'(\w+)\s+(\d{1,2})(?:st|nd|rd|th)?(?:,?\s*(\d{4}))?', timeframe):
\* the leftmost word followed by a word that starts with digits; the groups
\* (month_str, day_str, year_str), year_str None without a four-digit word
\* right after.  <<>> stands for no match.
date_match(words) ==
    LET hits == {i \in 1..(Len(words) - 1) : words[i + 1] \in DOMAIN LeadingDigits}
    IN  IF hits = {} THEN <<>>
        ELSE LET i == CHOOSE h \in hits : \A k \in hits : h <= k
                 year_str == IF i + 2 <= Len(words) /\ words[i + 2] \in DOMAIN FourDigits
                             THEN FourDigits[words[i + 2]] ELSE None
             IN  <<words[i], LeadingDigits[words[i + 1]], year_str>>

\* date.weekday(): Monday is 0 (day 0 of the calendar is a Monday).
weekday(d) == d % 7

DaysInMonth == <<31, 28, 31, 30, 31, 30, 31, 31, 30, 31, 30, 31>>

RECURSIVE DaysBeforeMonth(_)
DaysBeforeMonth(month) ==
    IF month = 1 THEN 0 ELSE DaysBeforeMonth(month - 1) + DaysInMonth[month - 1]

\* date(year, month, day); None stands for the ValueError of a day the
\* month does not have.
date(year, month, day) ==
    IF day < 1 \/ day > DaysInMonth[month] THEN None
    ELSE year * DaysPerYear + DaysBeforeMonth(month) + (day - 1)

\* The day-name branch counted from the target weekday alone.
days_ahead_same_week(target_weekday, today) ==
    IF target_weekday - weekday(today) < 0
    THEN target_weekday - weekday(today) + 7
    ELSE target_weekday - weekday(today)

\* days_ahead = target_weekday - target_date.weekday(), plus 7 when that is
\* not positive.
days_ahead(target_weekday, today) ==
    IF target_weekday - weekday(today) <= 0
    THEN target_weekday - weekday(today) + 7
    ELSE target_weekday - weekday(today)

\* The target date of a prediction request made on the day today.
target_date(raw, today) ==
    LET timeframe == lower(IF raw.null THEN <<>> ELSE raw.words)
    IN  IF timeframe = <<"tomorrow">> THEN today + 1
        ELSE IF Len(timeframe) = 1 /\ timeframe[1] \in DOMAIN day_names
        THEN today + days_ahead(day_names[timeframe[1]], today)
        ELSE LET groups == date_match(timeframe)
             IN  IF groups = <<>> THEN today
                 ELSE IF groups[1] \notin DOMAIN months THEN today
                 ELSE LET year == IF groups[3] # None THEN groups[3]
                                  ELSE today \div DaysPerYear
                          parsed == date(year, months[groups[1]], groups[2])
                      IN  IF parsed = None THEN today ELSE parsed

\* The timeframes of the requests.
Timeframes ==
    {NullTimeframe}
    \cup {Text(<<w>>) : w \in DOMAIN day_names}
    \cup {Text(<<w>>) : w \in {"tonight", "today", "tomorrow", "Tomorrow", "Monday"}}
    \cup {Text(w) : w \in {<<"this", "week">>, <<"current", "season">>,
                           <<"feb", "3">>, <<"Feb", "3rd">>, <<"feb", "30">>,
                           <<"february", "3", "2027">>, <<"in", "2027">>}}

\* The first day of the requests: January 1 of a year of the calendar.
FirstDay == 2026 * DaysPerYear

\* The days on which a request is made.
RequestDays == FirstDay..(FirstDay + MaxRequestDays - 1)

NoTargetDate == [pc |-> "idle", timeframe |-> NullTimeframe, today |-> 0, target_date |-> None]

InitTargetIdle == fp = NoTargetDate

\* _fetch_predictions, lines 610 to 648: the target date is determined.
determine_target_date ==
    /\ fp.pc = "called"
    /\ fp' = [fp EXCEPT !.pc = "dated",
                        !.target_date = target_date(fp.timeframe, fp.today)]
    /\ UNCHANGED targetFrame

\* =====================================================================
\* api/main.py: GET /api/leaders/{stat}
\* =====================================================================
valid_stats == <<"goals", "assists", "points", "xg", "corsi_for_pct">>

\* The stat path parameters of the requests.
StatParams ==
    {valid_stats[i] : i \in 1..Len(valid_stats)}
    \cup {"invalid_stat", "Goals", "XG", "shots", "goal", "goals DESC", "points_per_game"}

LeaderSeasons == {"20232024", "20242025"}

LeaderLimits == {1, 20}

\* str.lower() on the stats written with capitals.
StatLowered == ("Goals" :> "goals") @@ ("XG" :> "xg")

\* The test with the stat folded to lower case first.
not_in_valid_stats_folded(stat) ==
    LET folded == IF stat \in DOMAIN StatLowered THEN StatLowered[stat] ELSE stat
    IN  \A i \in 1..Len(valid_stats) : valid_stats[i] # folded

\* stat not in valid_stats
not_in_valid_stats(stat) == \A i \in 1..Len(valid_stats) : valid_stats[i] # stat

\* The detail of the 400: f"Invalid stat. Valid options: {valid_stats}",
\* as its pieces.
invalid_stat_detail == <<"Invalid stat", ". Valid options: ", valid_stats>>

NoLeadersRequest ==
    [pc |-> "idle", stat |-> "goals", season |-> "20232024", limit |-> 20,
     status_code |-> None, detail |-> <<>>, executed |-> <<>>, ranks |-> <<>>]

InitLeadersIdle == lr = NoLeadersRequest

\* What the store does with the one statement: the number of rows it
\* returns (at most the limit), or "raise".
LeaderAnswers == {0, 1, 2}

\* get_stat_leaders: the validation, then the one query and the ranking.
get_stat_leaders(found, store_raises) ==
    /\ lr.pc = "called"
    /\ IF not_in_valid_stats(lr.stat)
       THEN lr' = [lr EXCEPT !.pc = "responded", !.status_code = 400,
                             !.detail = invalid_stat_detail]
       ELSE IF store_raises
       THEN lr' = [lr EXCEPT !.pc = "responded", !.status_code = 500,
                             !.executed = Append(@, lr.stat)]
       ELSE lr' = [lr EXCEPT !.pc = "responded", !.status_code = 200,
                             !.executed = Append(@, lr.stat),
                             !.ranks = [i \in 1..(IF found < lr.limit THEN found
                                                  ELSE lr.limit) |-> i]]
    /\ UNCHANGED <<fp, ns, ck>>
    /\ UNCHANGED callFrame

\* =====================================================================
\* ingestion/espn_injuries.py, ingestion/injuries.py: the injury status
\* =====================================================================
\* A text is the sequence of its characters.
UpperCase ==
    ("A" :> "a") @@ ("B" :> "b") @@ ("D" :> "d") @@ ("E" :> "e") @@ ("F" :> "f")
    @@ ("H" :> "h") @@ ("I" :> "i") @@ ("K" :> "k") @@ ("L" :> "l") @@ ("N" :> "n")
    @@ ("O" :> "o") @@ ("P" :> "p") @@ ("Q" :> "q") @@ ("R" :> "r") @@ ("S" :> "s")
    @@ ("T" :> "t") @@ ("U" :> "u") @@ ("Y" :> "y") @@ ("G" :> "g") @@ ("M" :> "m")
    @@ ("J" :> "j") @@ ("V" :> "v") @@ ("C" :> "c")

\* str.lower()
status_lower(status) ==
    [i \in 1..Len(status) |->
        IF status[i] \in DOMAIN UpperCase THEN UpperCase[status[i]] ELSE status[i]]

\* str.upper() on the texts of lower-case letters and capitals.
upper(status) ==
    [i \in 1..Len(status) |->
        IF \E c \in DOMAIN UpperCase : UpperCase[c] = status[i]
        THEN CHOOSE c \in DOMAIN UpperCase : UpperCase[c] = status[i]
        ELSE status[i]]

\* pattern in text
contains(text, pattern) ==
    \E i \in 1..(Len(text) - Len(pattern) + 1) :
        \A k \in 1..Len(pattern) : text[i + k - 1] = pattern[k]

\* The patterns the two functions look for.
p_injured_reserve ==
    <<"i", "n", "j", "u", "r", "e", "d", " ", "r", "e", "s", "e", "r", "v", "e">>

p_ir ==
    <<"i", "r">>

p_long_term ==
    <<"l", "o", "n", "g", "-", "t", "e", "r", "m">>

p_ltir ==
    <<"l", "t", "i", "r">>

p_day_to_day ==
    <<"d", "a", "y", "-", "t", "o", "-", "d", "a", "y">>

p_dtd ==
    <<"d", "t", "d">>

p_out ==
    <<"o", "u", "t">>

p_questionable ==
    <<"q", "u", "e", "s", "t", "i", "o", "n", "a", "b", "l", "e">>

p_probable ==
    <<"p", "r", "o", "b", "a", "b", "l", "e">>

p_suspension ==
    <<"s", "u", "s", "p", "e", "n", "s", "i", "o", "n">>

p_lt ==
    <<"l", "t">>

p_day ==
    <<"d", "a", "y">>

p_scratch ==
    <<"s", "c", "r", "a", "t", "c", "h">>

\* The status texts of the sources.
s_LongTermInjuredReserve ==
    <<"L", "o", "n", "g", "-", "T", "e", "r", "m", " ", "I", "n", "j", "u", "r", "e",
      "d", " ", "R", "e", "s", "e", "r", "v", "e">>

s_InjuredReserve ==
    <<"I", "n", "j", "u", "r", "e", "d", " ", "R", "e", "s", "e", "r", "v", "e">>

s_LTIR ==
    <<"L", "T", "I", "R">>

s_IR ==
    <<"I", "R">>

s_DayToDay ==
    <<"D", "a", "y", "-", "T", "o", "-", "D", "a", "y">>

s_DTD ==
    <<"D", "T", "D">>

s_Out ==
    <<"O", "u", "t">>

s_Questionable ==
    <<"Q", "u", "e", "s", "t", "i", "o", "n", "a", "b", "l", "e">>

s_Probable ==
    <<"P", "r", "o", "b", "a", "b", "l", "e">>

s_Suspension ==
    <<"S", "u", "s", "p", "e", "n", "s", "i", "o", "n">>

s_Scratch ==
    <<"S", "c", "r", "a", "t", "c", "h">>

s_Healthy ==
    <<"H", "e", "a", "l", "t", "h", "y">>

UpperBody ==
    <<" ", "(", "u", "p", "p", "e", "r", " ", "b", "o", "d", "y", ")">>

BaseStatuses ==
    {s_LongTermInjuredReserve, s_InjuredReserve, s_LTIR, s_IR, s_DayToDay, s_DTD, s_Out,
     s_Questionable, s_Probable, s_Suspension, s_Scratch, s_Healthy}

\* Each status as the source writes it, in lower case, in capitals and with
\* the injury appended; and the empty status.
StatusTexts ==
    {<<>>}
    \cup BaseStatuses
    \cup {status_lower(s) : s \in BaseStatuses}
    \cup {upper(s) : s \in BaseStatuses}
    \cup {s \o UpperBody : s \in BaseStatuses}

\* A returned category, or the status itself when nothing matches.
Category(name) == [category |-> name, text |-> <<>>]

AsIs(status) == [category |-> "as is", text |-> status]

\* espn_injuries.normalize_injury_status
normalize_injury_status(status) ==
    LET l == status_lower(status)
    IN  IF contains(l, p_injured_reserve) \/ l = p_ir THEN Category("IR")
        ELSE IF contains(l, p_long_term) \/ contains(l, p_ltir) THEN Category("LTIR")
        ELSE IF contains(l, p_day_to_day) \/ contains(l, p_dtd) THEN Category("Day-to-Day")
        ELSE IF contains(l, p_out) THEN Category("Out")
        ELSE IF contains(l, p_questionable) THEN Category("Questionable")
        ELSE IF contains(l, p_probable) THEN Category("Probable")
        ELSE IF contains(l, p_suspension) THEN Category("Suspended")
        ELSE IF status # <<>> THEN AsIs(status)
        ELSE Category("Unknown")

\* injuries._normalize_injury_status
injuries_normalize_injury_status(status) ==
    LET l == status_lower(status)
    IN  IF contains(l, p_ir) /\ contains(l, p_lt) THEN Category("LTIR")
        ELSE IF contains(l, p_ir) THEN Category("IR")
        ELSE IF contains(l, p_day) \/ contains(l, p_dtd) THEN Category("Day-to-Day")
        ELSE IF contains(l, p_out) THEN Category("Out")
        ELSE IF contains(l, p_scratch) THEN Category("Scratch")
        ELSE IF status # <<>> THEN AsIs(status)
        ELSE Category("Unknown")

NoStatus == [pc |-> "idle", source |-> "none", status |-> <<>>, normalized |-> Category("none")]

InitStatusIdle == ns = NoStatus

\* ingest_espn_injuries, line 202: the status of one entry of the feed.
espn_status ==
    /\ ns.pc = "read"
    /\ ns.source = "espn"
    /\ ns' = [ns EXCEPT !.pc = "normalized", !.normalized = normalize_injury_status(ns.status)]
    /\ UNCHANGED <<fp, lr, ck>>
    /\ UNCHANGED callFrame

\* ingest_injuries, line 146: the status of one player of the roster data.
nhl_status ==
    /\ ns.pc = "read"
    /\ ns.source = "nhl"
    /\ ns' = [ns EXCEPT !.pc = "normalized",
                        !.normalized = injuries_normalize_injury_status(ns.status)]
    /\ UNCHANGED <<fp, lr, ck>>
    /\ UNCHANGED callFrame

\* =====================================================================
\* agents/rag.py: chunk_text
\* =====================================================================
\* The pieces the texts are made of (a text is the sequence of its
\* characters): a word, the ends of a sentence, a paragraph break.
TextPieces ==
    {<<"a", "a", "a">>, <<".", " ">>, <<"!", " ">>, <<"\n", "\n">>}

RECURSIVE Flatten(_)
Flatten(pieces) ==
    IF pieces = <<>> THEN <<>> ELSE Head(pieces) \o Flatten(Tail(pieces))

Texts == {Flatten(pieces) : pieces \in UNION {[1..n -> TextPieces] : n \in 0..MaxPieces}}

\* The calls: chunk_size > overlap >= 0.
ChunkSizes == {4, 8}

Overlaps == {0, 1, 3, 7}

\* text.rfind(sub, start, end): the highest index from which sub lies
\* within text[start:end], or -1 (indices count from 0).
rfind(text, sub, start, end) ==
    LET stop == IF end < Len(text) THEN end ELSE Len(text)
        found == {i \in start..(stop - Len(sub)) :
                    \A k \in 1..Len(sub) : text[i + k] = sub[k]}
    IN  IF found = {} THEN -1 ELSE CHOOSE i \in found : \A j \in found : j <= i

\* text[start:end]
slice(text, start, end) ==
    SubSeq(text, start + 1, IF end < Len(text) THEN end ELSE Len(text))

Whitespace == {" ", "\n"}

\* str.strip()
RECURSIVE strip(_)
strip(s) ==
    IF s = <<>> THEN s
    ELSE IF Head(s) \in Whitespace THEN strip(Tail(s))
    ELSE IF s[Len(s)] \in Whitespace THEN strip(SubSeq(s, 1, Len(s) - 1))
    ELSE s

\* The sentence ends, in the order they are tried.
Puncts == << <<".", " ">>, <<"!", " ">>, <<"?", " ">> >>

\* The for loop over the sentence ends: the first one found beyond the
\* middle of the chunk moves the end right behind it.
RECURSIVE sentence_end(_, _, _, _, _)
sentence_end(text, start, end, chunk_size, i) ==
    IF i > Len(Puncts) THEN end
    ELSE LET sent_break == rfind(text, Puncts[i], start, end)
         IN  IF sent_break > start + chunk_size \div 2 THEN sent_break + 2
             ELSE sentence_end(text, start, end, chunk_size, i + 1)

\* The end of the chunk that starts at start.
chunk_end(text, start, chunk_size) ==
    LET end == start + chunk_size
        para_break == rfind(text, <<"\n", "\n">>, start, end)
    IN  IF end >= Len(text) THEN end
        ELSE IF para_break > start + chunk_size \div 2 THEN para_break + 2
        ELSE sentence_end(text, start, end, chunk_size, 1)

NoChunking ==
    [pc |-> "idle", text |-> <<>>, chunk_size |-> 0, overlap |-> 0, start |-> 0,
     chunks |-> <<>>]

InitChunkIdle == ck = NoChunking

\* chunk_text up to the loop: a text that fits is returned whole.
chunk_text_begin ==
    /\ ck.pc = "called"
    /\ ck' = IF Len(ck.text) <= ck.chunk_size
             THEN [ck EXCEPT !.pc = "returned", !.chunks = <<ck.text>>]
             ELSE [ck EXCEPT !.pc = "loop", !.start = 0]
    /\ UNCHANGED <<fp, lr, ns>>
    /\ UNCHANGED callFrame

\* One iteration of the while loop.
chunk_text_iterate ==
    /\ ck.pc = "loop"
    /\ ck.start < Len(ck.text)
    /\ Len(ck.chunks) < MaxChunks
    /\ LET end == chunk_end(ck.text, ck.start, ck.chunk_size)
       IN  ck' = [ck EXCEPT !.chunks = Append(@, strip(slice(ck.text, ck.start, end))),
                            !.start = end - ck.overlap]
    /\ UNCHANGED <<fp, lr, ns>>
    /\ UNCHANGED callFrame

\* The loop condition fails: the chunks that are not empty are returned.
chunk_text_return ==
    /\ ck.pc = "loop"
    /\ ck.start >= Len(ck.text)
    /\ ck' = [ck EXCEPT !.pc = "returned",
                        !.chunks = SelectSeq(@, LAMBDA c : c # <<>>)]
    /\ UNCHANGED <<fp, lr, ns>>
    /\ UNCHANGED callFrame

InitCallsIdle == InitTargetIdle /\ InitLeadersIdle /\ InitStatusIdle /\ InitChunkIdle

InitAgents == InitPredictIdle /\ InitMatchupIdle /\ InitRouterIdle /\ InitCallsIdle

InitTables == InitBulk /\ InitGames /\ InitInjuries

InitStore == InitTables /\ InitAgents

\* =====================================================================
\* Specifications
\* =====================================================================
\* The process has just started: nothing runs, the ledger file is absent and
\* the tables are empty.
InitIdle ==
    /\ InitLatch
    /\ InitClock
    /\ InitLedger
    /\ InitJobIdle
    /\ InitStore

NextLatch ==
    \/ Lifespan
    \/ trigger_updates
    \/ trigger_daily_updates
    \/ \E t \in TaskIds : run_startup_updates_begin(t)
    \/ \E t \in TaskIds : run_daily_begin(t)
    \/ \E t \in TaskIds, raised \in BOOLEAN : job_finish(t, raised)

SpecLatch == InitIdle /\ [][NextLatch]_vars

NextLedger ==
    \/ \E key \in MarkerKeys, read_raises \in BOOLEAN : write_marker_begin(key, read_raises)
    \/ \E season \in 1..NumSeasons, read_raises \in BOOLEAN :
         mark_season_complete_begin(season, read_raises)
    \/ write_finish
    \/ crash_in_write
    \/ tick

SpecLedger == InitIdle /\ [][NextLedger]_vars

\* The jobs, started in mid-November at 21:00 (midnight is one tick away),
\* on a ledger that is new or whose markers are 2, 11 or 23 hours old.
JobsStartDay == DaysPerYear + OctFirst + 45

JobsStartHour == JobsStartDay * HoursPerDay + 21

\* A ledger whose timestamp markers were all written `age` hours ago and
\* whose game-log date is `back` days old.
AgedLedger(age, back) ==
    OkFile([DefaultProgress EXCEPT
              !.last_game_log_date = JobsStartDay - back,
              !.last_injury_update = JobsStartHour - age,
              !.last_team_stats_update = JobsStartHour - age,
              !.last_roster_sync = JobsStartHour - age,
              !.last_moneypuck_update = JobsStartHour - age])

InitJobs ==
    /\ InitLatch
    /\ now = JobsStartHour
    /\ elapsed = 0
    /\ progress_file \in
         {AbsentFile, AgedLedger(2, 1), AgedLedger(11, 1), AgedLedger(23, 4)}
    /\ wr = NoWrite
    /\ written = DefaultProgress
    /\ writes = 0
    /\ InitJobIdle
    /\ stats_seeded \in BOOLEAN
    /\ InitStore

NextJobs ==
    \/ start_startup
    \/ start_daily
    \/ \E outcome \in Answers : startup_seed(outcome)
    \/ \E outcome \in Answers : startup_schedule(outcome)
    \/ catchup_begin
    \/ \E outcome \in Answers : catchup_schedule(outcome)
    \/ \E outcome \in Answers : catchup_logs(outcome)
    \/ \E outcome \in Answers : startup_injuries(outcome)
    \/ \E outcome \in Answers : startup_team_stats(outcome)
    \/ \E outcome \in Answers : startup_rosters(outcome)
    \/ \E outcome \in Answers : startup_moneypuck_refresh(outcome)
    \/ \E outcome \in Answers : daily_schedule(outcome)
    \/ \E outcome \in Answers : daily_game_logs(outcome)
    \/ \E outcome \in Answers : daily_injuries(outcome)
    \/ \E outcome \in Answers : daily_team_stats(outcome)
    \/ \E outcome \in Answers : daily_rosters(outcome)
    \/ \E outcome \in Answers : daily_moneypuck(outcome)
    \/ tick

SpecJobs == InitJobs /\ [][NextJobs]_vars

\* catchup_game_logs called day after day, from days around the start of
\* the season, on a ledger whose game-log date is unset or 1, 4 or 20 days back.
CatchupStartDays ==
    {DaysPerYear + d : d \in {SepFirst - 1, SepFirst + 10, OctFirst - 1, OctFirst,
                              OctFirst + 1, OctFirst + 9, OctFirst + 14,
                              OctFirst + 15, OctFirst + 60}}

InitCatchup ==
    /\ InitLatch
    /\ now \in {d * HoursPerDay : d \in CatchupStartDays}
    /\ elapsed = 0
    /\ progress_file \in
         {AbsentFile} \cup
         {OkFile([DefaultProgress EXCEPT !.last_game_log_date = Today - back]) :
            back \in {1, 4, 20}}
    /\ wr = NoWrite
    /\ written = DefaultProgress
    /\ writes = 0
    /\ InitJobIdle
    /\ InitStore

NextCatchup ==
    \/ start_catchup
    \/ catchup_begin
    \/ \E outcome \in Answers : catchup_schedule(outcome)
    \/ \E outcome \in Answers : catchup_logs(outcome)
    \/ tick_day
    \/ restart

SpecCatchup == InitCatchup /\ [][NextCatchup]_vars

\* The bulk script run again and again on a ledger that starts absent.
NextBulk ==
    \/ \E skip_completed \in BOOLEAN : ingest_all_seasons_begin(skip_completed)
    \/ \E outcome \in Outcomes : ingest_season_moneypuck_download(outcome)
    \/ \E outcome \in Outcomes : ingest_season_moneypuck_store(outcome)
    \/ ingest_single_season_mark
    \/ \E in_write \in BOOLEAN : bulk_crash(in_write)
    \/ tick

SpecBulk == InitIdle /\ [][NextBulk]_vars

\* Schedule refreshes, one after another, on an empty games table.
NextGames == \E feed \in Feeds, raised \in BOOLEAN : ingest_schedule_for_date(feed, raised)

SpecGames == InitIdle /\ [][NextGames]_vars

\* Injury passes of both sources, one after another, on an empty table.
NextInjuries ==
    \/ \E feed \in SUBSET Persons : ingest_espn_injuries(feed)
    \/ \E feed \in SUBSET Persons : ingest_injuries(feed)

SpecInjuries == InitIdle /\ [][NextInjuries]_vars

\* The prediction engine over every store of the bounded sets.
InitPredict ==
    /\ InitLatch
    /\ InitClock
    /\ InitLedger
    /\ InitJobIdle
    /\ InitTables
    /\ pstore \in Stores
    /\ calc = NoCalc
    /\ prediction = NoPrediction
    /\ InitMatchupIdle
    /\ InitRouterIdle
    /\ InitCallsIdle

NextPredict == \E is_home \in BOOLEAN : calculate_player_prediction(is_home)

SpecPredict == InitPredict /\ [][NextPredict]_vars

\* The prediction engine while the player's samples change: the goalie and
\* team rows stay as they are, the game logs and the season row change.
SampleRecentRows == {r \in RecentRows : r.goals = 0 \/ r.games = 3}

SampleSeasonRows == {r \in SeasonRows : r.present => r.goals # 4}

SampleStores ==
    {s \in Stores :
        /\ s.recent \in SampleRecentRows
        /\ s.season \in SampleSeasonRows
        /\ s.split.home.games = 0
        /\ s.home_pace = None /\ s.away_pace = 400
        /\ s.home_goalie.present => s.home_goalie.save_pct = None
        /\ s.home_goalie.present = s.away_goalie.present}

InitSamples ==
    /\ InitLatch
    /\ InitClock
    /\ InitLedger
    /\ InitJobIdle
    /\ InitTables
    /\ pstore \in SampleStores
    /\ calc = NoCalc
    /\ prediction = NoPrediction
    /\ InitMatchupIdle
    /\ InitRouterIdle
    /\ InitCallsIdle

NextSamples ==
    \/ \E is_home \in BOOLEAN : calculate_player_prediction(is_home)
    \/ \E recent \in SampleRecentRows, h2h \in H2HRows : ingest_player_game_logs(recent, h2h)
    \/ \E row \in SampleSeasonRows : update_moneypuck_season_row(row)

SpecSamples == InitSamples /\ [][NextSamples]_vars

\* Matchup predictions over every roster of the bounded sets.
TopNs == {2, 10}

InitMatchup ==
    /\ InitLatch
    /\ InitClock
    /\ InitLedger
    /\ InitJobIdle
    /\ InitTables
    /\ InitPredictIdle
    /\ roster \in Rosters
    /\ matchup = NoMatchup
    /\ InitRouterIdle
    /\ InitCallsIdle

NextMatchup ==
    \E home_team \in Teams \ {"AWY"}, away_team \in Teams \ {"HOM"}, top_n \in TopNs :
        get_matchup_prediction(home_team, away_team, top_n)

SpecMatchup == InitMatchup /\ [][NextMatchup]_vars

\* One query, from the return of _classify_query on, for every classification.
InitRouter ==
    /\ InitLatch
    /\ InitClock
    /\ InitLedger
    /\ InitJobIdle
    /\ InitTables
    /\ InitPredictIdle
    /\ InitMatchupIdle
    /\ InitCallsIdle
    /\ classification \in Classifications
    /\ \E include_rag \in BOOLEAN : rq = Classified(include_rag)

NextRouter ==
    \/ \E outcome \in Retrievals : fetch_predictions(outcome)
    \/ \E outcome \in Retrievals : fetch_trade_suggestions(outcome)
    \/ \E outcome \in Retrievals : fetch_all_teams_breakdown(outcome)
    \/ \E outcome \in Retrievals : fetch_team_stats(outcome)
    \/ \E outcome \in Retrievals : fetch_league_leaders(outcome)
    \/ no_dispatch
    \/ \E outcome \in Retrievals : fetch_player_stats(outcome)
    \/ \E outcome \in Retrievals : rag_search(outcome)
    \/ generate_response

SpecRouter == InitRouter /\ [][NextRouter]_vars

\* One prediction request, for every timeframe and every day of the window.
InitTarget ==
    /\ InitLatch
    /\ InitClock
    /\ InitLedger
    /\ InitJobIdle
    /\ InitTables
    /\ InitPredictIdle
    /\ InitMatchupIdle
    /\ InitRouterIdle
    /\ InitLeadersIdle
    /\ InitStatusIdle
    /\ InitChunkIdle
    /\ \E timeframe \in Timeframes, today \in RequestDays :
         fp = [pc |-> "called", timeframe |-> timeframe, today |-> today,
               target_date |-> None]

NextTarget == determine_target_date

SpecTarget == InitTarget /\ [][NextTarget]_vars

\* One leaders request, for every stat, season and limit.
InitLeaders ==
    /\ InitLatch
    /\ InitClock
    /\ InitLedger
    /\ InitJobIdle
    /\ InitTables
    /\ InitPredictIdle
    /\ InitMatchupIdle
    /\ InitRouterIdle
    /\ InitTargetIdle
    /\ InitStatusIdle
    /\ InitChunkIdle
    /\ \E stat \in StatParams, season \in LeaderSeasons, limit \in LeaderLimits :
         lr = [NoLeadersRequest EXCEPT !.pc = "called", !.stat = stat,
                                       !.season = season, !.limit = limit]

NextLeaders ==
    \E found \in LeaderAnswers, store_raises \in BOOLEAN :
        get_stat_leaders(found, store_raises)

SpecLeaders == InitLeaders /\ [][NextLeaders]_vars

\* One injury entry of either source, for every status text.
InitStatus ==
    /\ InitLatch
    /\ InitClock
    /\ InitLedger
    /\ InitJobIdle
    /\ InitTables
    /\ InitPredictIdle
    /\ InitMatchupIdle
    /\ InitRouterIdle
    /\ InitTargetIdle
    /\ InitLeadersIdle
    /\ InitChunkIdle
    /\ \E source \in {"espn", "nhl"}, status \in StatusTexts :
         ns = [NoStatus EXCEPT !.pc = "read", !.source = source, !.status = status]

NextStatus ==
    \/ espn_status
    \/ nhl_status

SpecStatus == InitStatus /\ [][NextStatus]_vars

\* One call of chunk_text, for every text and every chunk_size > overlap >= 0
\* of the sets.
InitChunk ==
    /\ InitLatch
    /\ InitClock
    /\ InitLedger
    /\ InitJobIdle
    /\ InitTables
    /\ InitPredictIdle
    /\ InitMatchupIdle
    /\ InitRouterIdle
    /\ InitTargetIdle
    /\ InitLeadersIdle
    /\ InitStatusIdle
    /\ \E text \in Texts, chunk_size \in ChunkSizes, overlap \in Overlaps :
         /\ overlap < chunk_size
         /\ ck = [NoChunking EXCEPT !.pc = "called", !.text = text,
                                    !.chunk_size = chunk_size, !.overlap = overlap]

NextChunk ==
    \/ chunk_text_begin
    \/ chunk_text_iterate
    \/ chunk_text_return

SpecChunk == InitChunk /\ [][NextChunk]_vars

\* =====================================================================
\* Claims
\* =====================================================================

\* C1: at no time do two ingestion jobs execute concurrently, and a trigger
\* that arrives while a job is in progress is answered already_running (so
\* the latch is set whenever a job is running).
C1_NoOverlappingJobs ==
    /\ Cardinality(Running) <= 1
    /\ (Running # {} => auto_update_running)

\* C2 as claimed: after a first-ever catch-up run on any day D the ledger
\* holds last_game_log_date = D - 1 and the refreshed schedule window
\* [start, D - 1] spans at most MAX_CATCHUP_DAYS = 14 days.
C2_FirstRunReturns ==
    /\ job.pc \in {"game_logs", "cu_logs"}
    /\ cu'.state = "returned"
    /\ cu'.last = None

C2_LedgerAndWindow ==
    /\ load_progress(progress_file').last_game_log_date = cu'.today - 1
    /\ (cu'.today - 1) - cu'.start + 1 <= 14

C2_AnyDay == [][C2_FirstRunReturns => C2_LedgerAndWindow]_vars

\* C2 amended: the same for every first-ever run that returns on a day D
\* later than October 1 of the starting year of the current season.
C2_AfterSeasonStart ==
    [][(C2_FirstRunReturns /\ cu'.today > current_season * 365 + 273)
         => C2_LedgerAndWindow]_vars

C2_Witness ==
    /\ job.pc = "done"
    /\ cu.state = "returned"
    /\ cu.last = None
    /\ cu.days_missed = 14
    /\ load_progress(progress_file).last_game_log_date = cu.today - 1

\* C3: a catch-up run on day D with last_game_log_date = D - 4 requests the
\* schedule for [D - 3, D - 1], begins the game-log re-ingest only after the
\* schedule refresh has completed and sets the ledger to D - 1 when it
\* returns; a second run on the same day reports days_missed = 0 and
\* fetches nothing.
C3_LastFetch == fetches'[Len(fetches')]

C3_Step ==
    /\ (job.pc = "cu_schedule" /\ cu.last = cu.today - 4 /\ Len(fetches') > Len(fetches))
         => C3_LastFetch = [op |-> "schedule", from |-> cu.today - 3, to |-> cu.today - 1]
    /\ (Len(fetches') > Len(fetches) /\ C3_LastFetch.op = "game_logs")
         => \E i \in 1..Len(fetches) : fetches[i].op = "schedule"
    /\ (job.pc = "cu_logs" /\ cu.last = cu.today - 4 /\ cu'.state = "returned")
         => load_progress(progress_file').last_game_log_date = cu.today - 1
    /\ (job.pc = "game_logs" /\ job.kind # "daily" /\ attempted' # attempted
          /\ cu.state = "returned" /\ cu.last = cu.today - 4 /\ cu.today = Today)
         => /\ cu'.state = "returned"
            /\ cu'.days_missed = 0
            /\ fetches' = <<>>
            /\ contacted' = contacted
            /\ progress_file' = progress_file

C3_ThreeDayOutage == [][C3_Step]_vars

C3_Witness ==
    /\ job.pc = "done"
    /\ cu.state = "returned"
    /\ cu.days_missed = 0
    /\ fetches = <<>>
    /\ cu.prior.state = "returned"
    /\ cu.prior.today = cu.today
    /\ cu.prior.last = cu.today - 4

\* C4: in the bulk job a season is in completed_seasons only after that
\* season's advanced-stats download succeeded and its store writes committed.
C4_CompletedOnlyAfterCommit ==
    \A i \in 1..Len(load_progress(progress_file).completed_seasons) :
        load_progress(progress_file).completed_seasons[i] \in committed

\* C5: whenever no write is in flight, also after a crash in the middle of
\* a file write, load_progress returns for each key the value written by
\* the latest write that completed.
C5_LedgerDurable ==
    wr.pc = "idle" => load_progress(progress_file) = written

\* C6 as claimed: in the startup job each throttled sub-task whose marker is
\* younger than its threshold (injuries 4 h, team/goalie stats 12 h, advanced
\* stats 12 h, roster sync 24 h) contacts no source, leaves the ledger
\* unchanged and returns skipped with reason recently_updated; otherwise it runs.
C6_Step(name, key, hours, reason) ==
    (job.kind = "startup" /\ job.pc = name /\ attempted' # attempted)
      => LET last == load_progress(progress_file)[key]
         IN  IF last # None /\ now - last < hours
             THEN /\ contacted' = contacted
                  /\ progress_file' = progress_file
                  /\ results'[name] = reason
             ELSE name \in contacted'

C6_AllRecentlyUpdated ==
    [][/\ C6_Step("injuries", "last_injury_update", 4, "skipped_recently_updated")
       /\ C6_Step("team_stats", "last_team_stats_update", 12, "skipped_recently_updated")
       /\ C6_Step("moneypuck_refresh", "last_moneypuck_update", 12, "skipped_recently_updated")
       /\ C6_Step("rosters", "last_roster_sync", 24, "skipped_recently_updated")]_vars

\* C6 amended: the same, the reason of the skipped roster sync being
\* recently_synced.
C6_Throttled ==
    [][/\ C6_Step("injuries", "last_injury_update", 4, "skipped_recently_updated")
       /\ C6_Step("team_stats", "last_team_stats_update", 12, "skipped_recently_updated")
       /\ C6_Step("moneypuck_refresh", "last_moneypuck_update", 12, "skipped_recently_updated")
       /\ C6_Step("rosters", "last_roster_sync", 24, "skipped_recently_synced")]_vars

C6_Witness ==
    /\ job.kind = "startup"
    /\ job.pc = "done"
    /\ "injuries" \in contacted
    /\ results.team_stats = "skipped_recently_updated"
    /\ results.moneypuck_refresh = "skipped_recently_updated"
    /\ results.rosters = "skipped_recently_synced"
    /\ "team_stats" \notin contacted

\* C7: a startup job attempts its sub-tasks once each in the fixed order, an
\* exception of a sub-task is recorded in the results under the sub-task's
\* name, and the sub-tasks after it are still attempted.
C7_Order ==
    <<"moneypuck", "schedule", "game_logs", "injuries", "team_stats", "rosters",
      "moneypuck_refresh">>

C7_StartupOrder ==
    job.kind = "startup" =>
      /\ Len(attempted) <= Len(C7_Order)
      /\ \A i \in 1..Len(attempted) : attempted[i] = C7_Order[i]
      /\ (job.pc = "done" => Len(attempted) = Len(C7_Order))
      /\ \A i \in 1..Len(errors) :
           /\ \E j \in 1..Len(attempted) : attempted[j] = errors[i]
           /\ results[errors[i]] = "unset"
           /\ \A k \in 1..Len(errors) : errors[k] = errors[i] => k = i
      /\ \A j \in 1..Len(attempted) :
           (results[attempted[j]] = "unset" /\ ~(j = Len(attempted) /\ job.pc \in {"cu_schedule", "cu_logs"}))
             => \E i \in 1..Len(errors) : errors[i] = attempted[j]

C7_Witness ==
    /\ job.kind = "startup"
    /\ job.pc = "done"
    /\ errors = <<"schedule">>
    /\ results.rosters # "unset"
    /\ results.moneypuck_refresh # "unset"

\* C8: every daily job re-ingests game logs, injuries, team/goalie stats,
\* rosters and advanced stats whatever the ledger holds: each of these
\* sub-tasks has contacted its source when the job is over.
C8_DailyUnconditional ==
    (job.kind = "daily" /\ job.pc = "done")
      => {"game_logs", "injuries", "team_stats", "rosters", "moneypuck"} \subseteq contacted

\* C9: once a game's home or away score is non-null in the store, an upsert
\* whose source record carries a null score leaves the stored score unchanged.
C9_ScoresNeverNulled ==
    [][\A g \in GameIds :
         upserts'[g].sent =>
           /\ (games[g].home_score # None /\ upserts'[g].home_score = None
                 => games'[g].home_score = games[g].home_score)
           /\ (games[g].away_score # None /\ upserts'[g].away_score = None
                 => games'[g].away_score = games[g].away_score)]_vars

\* C10: after every completed injury pass each player has at most one active
\* injury row, and the players with an active injury are exactly the players
\* the source listed in that pass (none, when the source returned nothing).
C10_CurrentView ==
    last_pass # "none" =>
        /\ \A p \in Players : Cardinality(RowsOf(p) \cap ActiveRows) <= 1
        /\ ActivePlayers = asserted

\* C11: running the same ingestion twice with identical source input leaves
\* the same rows with the same contents as running it once (here: an injury
\* pass that follows a completed pass of the same source with the same feed
\* leaves the injuries table as it was).
C11_SecondRunChangesNothing ==
    [][(last_pass # "none" /\ last_pass' = last_pass /\ last_feed' = last_feed)
         => injuries' = injuries]_vars

\* C12: when the external source of a sub-task is unavailable, the job's
\* summary records that sub-task as errored (in results["errors"], or as an
\* error result under the sub-task's key) and the job goes on to its end.
C12_UnavailableIsErrored ==
    /\ \A name \in down :
         \/ \E i \in 1..Len(errors) : errors[i] = name
         \/ results[name] = "error"
    /\ (job.kind \in {"startup", "daily"} /\ job.pc = "done")
         => Len(attempted) = Len(OrderOf(job.kind))

\* ---------------------------------------------------------------------
\* C13: the base expected points are the weighted average of exactly the
\* components whose sample passes its minimum (recent form 0.30 from 3 games,
\* season baseline 0.25 from 10 games, head-to-head 0.15 from 3 games), the
\* weights renormalised over the components present, and 0 when none passes;
\* recent and season alone give recent*(0.30/0.55) + season*(0.25/0.55).
C13_Components == {"recent", "season", "h2h"}

C13_Gate == [recent |-> 3, season |-> 10, h2h |-> 3]

C13_Share == [recent |-> 30, season |-> 25, h2h |-> 15]

C13_Passing == {k \in C13_Components : calc[k].games >= C13_Gate[k]}

C13_Shares ==
    (IF "recent" \in C13_Passing THEN C13_Share.recent ELSE 0)
    + (IF "season" \in C13_Passing THEN C13_Share.season ELSE 0)
    + (IF "h2h" \in C13_Passing THEN C13_Share.h2h ELSE 0)

C13_Term(k) ==
    IF k \in C13_Passing THEN RMul(calc[k].ppg, Rat(C13_Share[k], C13_Shares)) ELSE Zero

C13_BaseIsWeightedAverage ==
    calc.status = "ok" =>
        /\ calc.base = RAdd(C13_Term("recent"), RAdd(C13_Term("season"), C13_Term("h2h")))
        /\ C13_Passing = {} => calc.base = Zero
        /\ C13_Passing = {"recent", "season"} =>
              calc.base = RAdd(RMul(calc.recent.ppg, Rat(30, 55)),
                               RMul(calc.season.ppg, Rat(25, 55)))

\* Recent form and season baseline pass, head-to-head does not, and the two
\* averages differ.
C13_Witness ==
    /\ calc.status = "ok"
    /\ C13_Passing = {"recent", "season"}
    /\ calc.recent.ppg # calc.season.ppg
    /\ RLess(Zero, calc.base)
    /\ pstore.h2h.games > 0

\* ---------------------------------------------------------------------
\* C14: in every PlayerPrediction the probabilities of a goal, of a point
\* and of two or more points lie between 0 and 1, and the probability of two
\* or more points does not exceed the probability of a point; this includes
\* the predictions whose expected goals or expected points are 0.
C14_Probabilities ==
    prediction.status = "ok" =>
        /\ \A p \in {prediction.prob_goal, prediction.prob_point,
                      prediction.prob_multi_point} : 0 <= p /\ p <= 1000
        /\ prediction.prob_multi_point <= prediction.prob_point

\* A prediction whose expected points were clamped to 0: the three floors.
C14_Witness ==
    /\ prediction.status = "ok"
    /\ calc.expected_points = Zero
    /\ prediction.prob_goal = 50
    /\ prediction.prob_point = 100
    /\ prediction.prob_multi_point = 20

\* ---------------------------------------------------------------------
\* C15: in every PlayerPrediction the expected points are not negative, and
\* the reported expected goals plus the reported expected assists differ from
\* the reported expected points by at most 0.01.
C15_ExpectedValues ==
    prediction.status = "ok" =>
        /\ prediction.expected_points >= 0
        /\ Abs(prediction.expected_goals + prediction.expected_assists
                 - prediction.expected_points) <= 1

\* The three values were rounded apart: the reported goals and assists do
\* not add up to the reported points.
C15_Witness ==
    /\ prediction.status = "ok"
    /\ prediction.expected_points > 0
    /\ prediction.expected_goals + prediction.expected_assists # prediction.expected_points

\* ---------------------------------------------------------------------
\* C16: the confidence score is min(1, games_analyzed/50), plus 0.10 clamped
\* to 1 when the matchup context has both goalies; it is 1 from 50 games on
\* and does not decrease when a later prediction analyses more games; the
\* tier is high iff the score is at least 0.70, medium iff it is at least 0.40
\* and below 0.70, low otherwise, and the 'Limited data' factor is present
\* iff the tier is low.
C16_Min(a, b) == IF a < b THEN a ELSE b

C16_BothGoalies == pstore.home_goalie.present /\ pstore.away_goalie.present

C16_Has(seq, x) == \E i \in 1..Len(seq) : seq[i] = x

C16_ScoreAndTier ==
    prediction.status = "ok" =>
        LET score == prediction.confidence_score
            plain == C16_Min(100, 2 * prediction.games_analyzed)
        IN  /\ score = IF C16_BothGoalies THEN C16_Min(100, plain + 10) ELSE plain
            /\ prediction.games_analyzed >= 50 => score = 100
            /\ prediction.confidence = "high" <=> score >= 70
            /\ prediction.confidence = "medium" <=> (40 <= score /\ score < 70)
            /\ prediction.confidence = "low" <=> score < 40
            /\ C16_Has(prediction.factors, "Limited data") <=> prediction.confidence = "low"

C16_Confidence ==
    /\ []C16_ScoreAndTier
    /\ [][(/\ prediction.status = "ok"
            /\ prediction'.status = "ok"
            /\ prediction'.games_analyzed >= prediction.games_analyzed)
              => prediction'.confidence_score >= prediction.confidence_score]_vars

\* Thirty games analysed with both goalies known: the score is exactly 0.70
\* and the tier is high.
C16_Witness ==
    /\ prediction.status = "ok"
    /\ prediction.games_analyzed = 30
    /\ C16_BothGoalies
    /\ prediction.confidence_score = 70
    /\ prediction.confidence = "high"

\* ---------------------------------------------------------------------
\* C17: the prediction engine never raises on missing data: whatever rows
\* are absent and whatever stat columns are null, the player prediction is
\* produced.
C17_NeverRaises == prediction.status # "raised"

\* ---------------------------------------------------------------------
\* C18: in every MatchupPrediction top_scorers has min(5, home + away
\* players) elements, each of them one of the home or away players, in
\* non-increasing order of prob_goal, and no player left out has a prob_goal
\* strictly greater than a player included.
C18_Min(a, b) == IF a < b THEN a ELSE b

C18_AllPlayers == matchup.home_players \o matchup.away_players

C18_Included(p) == \E i \in 1..Len(matchup.top_scorers) : matchup.top_scorers[i] = p

C18_TopScorers ==
    matchup.status = "ok" =>
        LET top == matchup.top_scorers
        IN  /\ Len(top) = C18_Min(5, Len(matchup.home_players) + Len(matchup.away_players))
            /\ \A i \in 1..Len(top) :
                  \E j \in 1..Len(C18_AllPlayers) : C18_AllPlayers[j] = top[i]
            /\ \A i \in 1..(Len(top) - 1) : top[i].prob_goal >= top[i + 1].prob_goal
            /\ \A j \in 1..Len(C18_AllPlayers) :
                  ~C18_Included(C18_AllPlayers[j]) =>
                      \A i \in 1..Len(top) : C18_AllPlayers[j].prob_goal <= top[i].prob_goal

\* Six players, of both teams, with different goal probabilities: one is
\* left out, and the first of the home players is not the top scorer.
C18_Witness ==
    /\ matchup.status = "ok"
    /\ Len(matchup.home_players) > 0
    /\ Len(matchup.away_players) > 0
    /\ Len(C18_AllPlayers) > 5
    /\ Len(matchup.top_scorers) = 5
    /\ matchup.top_scorers[1].prob_goal > matchup.top_scorers[5].prob_goal
    /\ matchup.top_scorers[1] # C18_AllPlayers[1]
    /\ \E j \in 1..Len(C18_AllPlayers) : ~C18_Included(C18_AllPlayers[j])

\* ---------------------------------------------------------------------
\* C19: the router invokes at most one of the dispatches prediction, trade,
\* all-teams breakdown, team-scoped and leaders, namely the first in that
\* order whose condition holds; player statistics (when players were
\* extracted) and then the document search (when RAG is enabled) come after
\* it, and the source tags are recorded in that order.
C19_Priority == <<"prediction", "trade", "all_teams", "team", "leaders">>

C19_Intent ==
    [prediction |-> classification.is_prediction_query
                      \/ classification.type \in {"matchup_prediction", "tonight_prediction"},
     trade |-> classification.is_trade_query \/ classification.type = "trade_suggestion",
     all_teams |-> classification.is_all_teams_query,
     team |-> classification.teams # <<>>,
     leaders |-> classification.is_leaders_query \/ classification.type = "leaders"]

C19_First ==
    IF \E i \in 1..5 : C19_Intent[C19_Priority[i]]
    THEN <<C19_Priority[CHOOSE i \in 1..5 :
                /\ C19_Intent[C19_Priority[i]]
                /\ \A j \in 1..(i - 1) : ~C19_Intent[C19_Priority[j]]]>>
    ELSE <<>>

C19_IsPrimary(name) == \E i \in 1..5 : C19_Priority[i] = name

C19_Rank(name) == IF C19_IsPrimary(name) THEN 1 ELSE IF name = "player_stats" THEN 2 ELSE 3

C19_TagRank(tag) == IF tag.type = "rag" THEN 3 ELSE IF tag.data = "player_stats" THEN 2 ELSE 1

C19_Invoked(name) == \E i \in 1..Len(rq.invoked) : rq.invoked[i] = name

C19_OneDispatchInOrder ==
    /\ Len(SelectSeq(rq.invoked, C19_IsPrimary)) <= 1
    /\ rq.pc \notin {"idle", "dispatch"} => SelectSeq(rq.invoked, C19_IsPrimary) = C19_First
    /\ \A i \in 1..(Len(rq.invoked) - 1) :
          C19_Rank(rq.invoked[i]) < C19_Rank(rq.invoked[i + 1])
    /\ rq.pc \in {"generate", "returned"} =>
          /\ C19_Invoked("player_stats") <=> classification.players # <<>>
          /\ C19_Invoked("rag") <=> rq.include_rag
    /\ \A i \in 1..(Len(rq.sources) - 1) :
          C19_TagRank(rq.sources[i]) < C19_TagRank(rq.sources[i + 1])

\* A trade query that also names a team, asks for leaders and names a
\* player: the trade dispatch alone is taken, then player statistics, then
\* the document search, and three tags are recorded.
C19_Witness ==
    /\ rq.pc = "returned"
    /\ rq.invoked = <<"trade", "player_stats", "rag">>
    /\ classification.teams # <<>>
    /\ classification.is_leaders_query
    /\ Len(rq.sources) = 3

\* ---------------------------------------------------------------------
\* C20: the router never raises on the failure of a single retrieval
\* dispatch: the query proceeds and returns a response.
C20_NeverRaises == Cardinality(rq.failed) = 1 => rq.pc # "raised"

\* ---------------------------------------------------------------------
\* C21: 'tonight', 'today' and a null timeframe resolve to today,
\* 'tomorrow' to today + 1, and a day name to the one date of
\* [today + 1, today + 7] that falls on that weekday (today's own day name
\* resolves to today + 7), on every day.
C21_Words == IF fp.timeframe.null THEN <<>> ELSE fp.timeframe.words

C21_IsDayName == Len(C21_Words) = 1 /\ C21_Words[1] \in DOMAIN day_names

C21_TimeframeResolution ==
    fp.pc = "dated" =>
        /\ (fp.timeframe.null \/ C21_Words \in {<<"tonight">>, <<"today">>})
             => fp.target_date = fp.today
        /\ C21_Words = <<"tomorrow">> => fp.target_date = fp.today + 1
        /\ C21_IsDayName =>
             /\ fp.target_date \in (fp.today + 1)..(fp.today + 7)
             /\ weekday(fp.target_date) = day_names[C21_Words[1]]
             /\ (weekday(fp.today) = day_names[C21_Words[1]]
                   => fp.target_date = fp.today + 7)

C21_Witness ==
    /\ fp.pc = "dated"
    /\ C21_IsDayName
    /\ weekday(fp.today) = day_names[C21_Words[1]]
    /\ fp.target_date = fp.today + 7

\* ---------------------------------------------------------------------
\* C22: a leaders request whose stat is not one of goals, assists, points,
\* xg, corsi_for_pct is rejected with status 400 and a detail containing
\* 'Invalid stat', and no store query is executed for it.
C22_Valid == {"goals", "assists", "points", "xg", "corsi_for_pct"}

C22_InvalidStatRejected ==
    (lr.pc = "responded" /\ lr.stat \notin C22_Valid) =>
        /\ lr.status_code = 400
        /\ \E i \in 1..Len(lr.detail) : lr.detail[i] = "Invalid stat"
        /\ lr.executed = <<>>

C22_Witness ==
    /\ lr.pc = "responded"
    /\ lr.stat = "Goals"
    /\ lr.status_code = 400
    /\ lr.executed = <<>>

\* ---------------------------------------------------------------------
\* C23: the 'Hot streak' factor is emitted exactly when the recent-form
\* component passes its gate and recent_ppg > 1.2 x season_ppg, and the
\* 'Cold streak' factor exactly when it passes and recent_ppg < 0.8 x
\* season_ppg, season_ppg being the player's season points per game.
C23_Has(factor) ==
    \E i \in 1..Len(prediction.factors) : prediction.factors[i] = factor

C23_StreakFactors ==
    prediction.status = "ok" =>
        LET passes == calc.recent.games >= 3
            recent_ppg == calc.recent.ppg
            season_ppg == calc.season.ppg
        IN  /\ C23_Has("Hot streak")
                <=> (passes /\ RLess(RMul(season_ppg, Rat(12, 10)), recent_ppg))
            /\ C23_Has("Cold streak")
                <=> (passes /\ RLess(recent_ppg, RMul(season_ppg, Rat(8, 10))))

\* ---------------------------------------------------------------------
\* C24: the goals/assists split uses the goal_ratio of recent form only
\* when the recent-form component is present (at least MIN_GAMES_RECENT = 3
\* games before the game date); when recent form is absent or dropped by the
\* gate, goal_ratio is 0.4.
C24_GoalRatio ==
    prediction.status = "ok" =>
        IF calc.recent.games >= 3
        THEN calc.goal_ratio = calc.recent.goal_ratio
        ELSE calc.goal_ratio = Rat(2, 5)

\* ---------------------------------------------------------------------
\* C25: injury status normalisation matches substrings case-insensitively
\* with precedence LTIR > IR > Day-to-Day > Out > Questionable > Probable >
\* Suspended: a status that matches both the long-term marker and the
\* injured-reserve marker ('Long-Term Injured Reserve') normalises to LTIR.
C25_InPrecedence(status) ==
    LET l == status_lower(status)
    IN  IF contains(l, p_long_term) \/ contains(l, p_ltir) THEN "LTIR"
        ELSE IF contains(l, p_injured_reserve) \/ l = p_ir THEN "IR"
        ELSE IF contains(l, p_day_to_day) \/ contains(l, p_dtd) THEN "Day-to-Day"
        ELSE IF contains(l, p_out) THEN "Out"
        ELSE IF contains(l, p_questionable) THEN "Questionable"
        ELSE IF contains(l, p_probable) THEN "Probable"
        ELSE IF contains(l, p_suspension) THEN "Suspended"
        ELSE "as is"

C25_StatusPrecedence ==
    (ns.pc = "normalized" /\ ns.status # <<>>) =>
        ns.normalized.category = C25_InPrecedence(ns.status)

\* ---------------------------------------------------------------------
\* C26: every value of last_game_log_date written by a startup catch-up or
\* a daily job is strictly earlier than the calendar day of the run that
\* writes it (only fully elapsed days are recorded as ingested), so that a
\* catch-up on the following day re-ingests the game logs.
C26_Before == load_progress(progress_file).last_game_log_date

C26_After == load_progress(progress_file').last_game_log_date

C26_OnlyElapsedDays ==
    [][(C26_After # C26_Before /\ C26_After # None) => C26_After < Today']_vars

\* ---------------------------------------------------------------------
\* C27: a progress marker is advanced only when the data it stands for was
\* fetched: when the injury feed fetch fails last_injury_update is left as
\* it was, and when the game-log fetches of a catch-up fail
\* last_game_log_date is left as it was.
C27_FetchFails(name) == name \in down' /\ name \notin down

C27_Unchanged(key) == load_progress(progress_file')[key] = load_progress(progress_file)[key]

C27_MarkerOnlyAfterFetch ==
    [][/\ C27_FetchFails("injuries") => C27_Unchanged("last_injury_update")
       /\ (C27_FetchFails("game_logs") /\ job.pc = "cu_logs")
            => C27_Unchanged("last_game_log_date")]_vars

\* ---------------------------------------------------------------------
\* C28: writing one ledger marker (the set_last_... setters,
\* mark_season_complete, mark_current_season_updated) leaves every other
\* key of the ledger file, in particular completed_seasons, as it was, for
\* every prior state of the file, an unreadable or malformed one included.
C28_Keys == MarkerKeys \cup {"completed_seasons"}

\* The keys a setter assigns: mark_season_complete stamps last_update too.
C28_Own(key) ==
    IF key = "completed_seasons" THEN {"completed_seasons", "last_update"} ELSE {key}

C28_OtherKeysUnchanged ==
    [][/\ (wr.pc = "idle" /\ wr'.pc = "writing")
            => \A k \in C28_Keys \ C28_Own(wr'.key) : wr'.data[k] = progress_file.data[k]
       /\ (wr.pc = "writing" /\ progress_file'.state = "ok")
            => progress_file'.data = wr.data]_vars

\* ---------------------------------------------------------------------
\* C29: across any sequence of bulk-season runs, with or without
\* skip_completed, completed_seasons never contains a season twice and
\* never loses a season once it was added, and the seasons selected with
\* skip_completed set are exactly the configured seasons that are not in
\* completed_seasons.
C29_Completed == load_progress(progress_file).completed_seasons

C29_CompletedNext == load_progress(progress_file').completed_seasons

C29_Selected == get_seasons_to_process(progress_file, TRUE)

C29_NoSeasonTwice ==
    \A i, j \in 1..Len(C29_Completed) : C29_Completed[i] = C29_Completed[j] => i = j

C29_Selection ==
    {C29_Selected[i] : i \in 1..Len(C29_Selected)}
      = {AllSeasons[i] : i \in 1..Len(AllSeasons)}
          \ {C29_Completed[i] : i \in 1..Len(C29_Completed)}

C29_NoSeasonLost ==
    \A i \in 1..Len(C29_Completed) : SeqContains(C29_CompletedNext, C29_Completed[i])

C29_CompletedSeasons ==
    /\ [](C29_NoSeasonTwice /\ C29_Selection)
    /\ [][C29_NoSeasonLost]_vars

\* ---------------------------------------------------------------------
\* C30: chunk_text terminates for every text and every chunk_size >
\* overlap >= 0: the start cursor strictly increases on each iteration of
\* the loop, also when the chunk is cut at a paragraph or sentence end.
C30_StartIncreases ==
    [][(ck.pc = "loop" /\ ck'.pc = "loop") => ck'.start > ck.start]_vars

====
